---- MODULE Spec2Model ----
(***************************************************************************)
(* hex-fold: the growth/travel Stepper, the shared HoneyGraph state and    *)
(* the time-based animation scheduler, as a state machine.                 *)
(*                                                                         *)
(* Vertex keys are the integer lattice pairs <<q, r>> of app/grid/layout;  *)
(* an unset key (Python None) is the empty tuple.  Floating-point pixel    *)
(* coordinates are integers here (see BasisXPx, BasisYPx); the random      *)
(* stream is a nondeterministic choice of the values the Stepper consumes. *)
(***************************************************************************)
EXTENDS Integers, Sequences, FiniteSets, TLC

VARIABLES
    layout,          \* HexGridLayout handed to HoneyGraph.__init__ (never mutated)
    adjacency,       \* HoneyGraph._adjacency_ro
    edge_state,      \* HoneyGraph._edge_state:   edge key -> [exists, traffic]
    vertex_state,    \* HoneyGraph._vertex_state: vertex key -> [visit_count, version, open_incident_edges]
    frontier_count,  \* HoneyGraph._frontier_count
    active_edges,    \* HoneyGraph._active_edges
    agents,          \* AgentRuntime.agent of every registered runtime, in registration order
    animators,       \* AgentRuntime.animator of every registered runtime
    now_ms,          \* the now_ms of the latest AgentController.update (0 before the first)
    last,            \* per agent: what its Stepper invocation in the last transition did
    moved_at_ms,     \* per agent: the now_ms of the update that last changed its (prev, curr)
    moves_made       \* the number of Stepper invocations that changed an agent's (prev, curr)

vars == <<layout, adjacency, edge_state, vertex_state, frontier_count, active_edges,
          agents, animators, now_ms, last, moved_at_ms, moves_made>>

-----------------------------------------------------------------------------
(* Bounds of the model *)

NumAgents == 2
MaxMoves == 8
MaxFrames == 8

Agents == 1..NumAgents

-----------------------------------------------------------------------------
(* Keys *)

None == <<>>

\* Python's tuple comparison key_a <= key_b on (q, r) pairs
KeyLeq(key_a, key_b) ==
    \/ key_a[1] < key_b[1]
    \/ key_a[1] = key_b[1] /\ key_a[2] <= key_b[2]

\* _edge_key that keeps the endpoints in the order given
EdgeKeyDirected(key_a, key_b) == <<key_a, key_b>>

EdgeKey(key_a, key_b) == IF KeyLeq(key_a, key_b) THEN <<key_a, key_b>> ELSE <<key_b, key_a>>

-----------------------------------------------------------------------------
(* Layouts: the vertex keys, their pixel positions and the static edges *)

BasisXPx == 28
BasisYPx == 16

\* pixel position of a lattice key, relative to the lattice origin
LatticeOffsetToPx(key) == <<(key[1] - key[2]) * BasisXPx, (key[1] + key[2]) * BasisYPx>>

MakeLayout(name, vertices, edges) ==
    [name |-> name, vertices |-> vertices, edges |-> edges,
     px |-> [k \in {vertices[n] : n \in 1..Len(vertices)} |-> LatticeOffsetToPx(k)]]

\* compute_hex_grid_layout with target_cols = 1, target_rows = 1: one hexagon
Hex1x1 ==
    MakeLayout("Hex1x1",
        << <<-1,-1>>, <<0,-1>>, <<1,0>>, <<1,1>>, <<0,1>>, <<-1,0>> >>,
        << << <<-1,-1>>, <<-1,0>> >>, << <<-1,-1>>, <<0,-1>> >>, << <<-1,0>>, <<0,1>> >>,
           << <<0,-1>>, <<1,0>> >>, << <<0,1>>, <<1,1>> >>, << <<1,0>>, <<1,1>> >> >>)

\* a chain A-B-C-D-E of five lattice vertices (A = <<-1,0>> ... E = <<1,1>>)
Chain5 ==
    MakeLayout("Chain5",
        << <<-1,0>>, <<-1,-1>>, <<0,-1>>, <<1,0>>, <<1,1>> >>,
        << << <<-1,-1>>, <<-1,0>> >>, << <<-1,-1>>, <<0,-1>> >>,
           << <<0,-1>>, <<1,0>> >>, << <<1,0>>, <<1,1>> >> >>)

\* one degree-3 vertex <<1,0>> with its three lattice neighbours
Claw ==
    MakeLayout("Claw",
        << <<0,-1>>, <<1,0>>, <<1,1>>, <<2,0>> >>,
        << << <<0,-1>>, <<1,0>> >>, << <<1,0>>, <<1,1>> >>, << <<1,0>>, <<2,0>> >> >>)

\* the hexagon with the edge <<1,0>> - <<2,0>> of the next hexagon: the part of
\* compute_hex_grid_layout's two-column grid around the degree-3 vertex <<1,0>>
HexTail ==
    MakeLayout("HexTail",
        << <<-1,-1>>, <<0,-1>>, <<1,0>>, <<1,1>>, <<0,1>>, <<-1,0>>, <<2,0>> >>,
        << << <<-1,-1>>, <<-1,0>> >>, << <<-1,-1>>, <<0,-1>> >>, << <<-1,0>>, <<0,1>> >>,
           << <<0,-1>>, <<1,0>> >>, << <<0,1>>, <<1,1>> >>, << <<1,0>>, <<1,1>> >>,
           << <<1,0>>, <<2,0>> >> >>)

\* two vertices joined by one edge
Edge1 ==
    MakeLayout("Edge1", << <<0,-1>>, <<1,0>> >>, << << <<0,-1>>, <<1,0>> >> >>)

\* two vertices and no edge: the frontier is empty from the start
NoEdge ==
    MakeLayout("NoEdge", << <<0,-1>>, <<1,0>> >>, << >>)

\* one vertex with four neighbours: more than a honeycomb vertex has
Star4 ==
    MakeLayout("Star4",
        << <<0,0>>, <<-1,0>>, <<0,-1>>, <<1,0>>, <<0,1>> >>,
        << << <<-1,0>>, <<0,0>> >>, << <<0,-1>>, <<0,0>> >>,
           << <<0,0>>, <<1,0>> >>, << <<0,0>>, <<0,1>> >> >>)

\* two edges that share no vertex, and a vertex without any edge
TwoEdges ==
    MakeLayout("TwoEdges",
        << <<-1,-1>>, <<-1,0>>, <<1,0>>, <<1,1>>, <<0,2>> >>,
        << << <<-1,-1>>, <<-1,0>> >>, << <<1,0>>, <<1,1>> >> >>)

Layouts == {Hex1x1, HexTail, Chain5, Claw, Edge1, NoEdge, Star4, TwoEdges}

VertexKeys(lay) == {lay.vertices[n] : n \in 1..Len(lay.vertices)}
EdgeKeys(lay) == {EdgeKey(lay.edges[n][1], lay.edges[n][2]) : n \in 1..Len(lay.edges)}

-----------------------------------------------------------------------------
(* HoneyGraph *)

\* the adjacency list of vertex v after the edges[1..n] have been appended
RECURSIVE AdjacencyOf(_, _, _)
AdjacencyOf(edges, n, v) ==
    IF n = 0 THEN <<>>
    ELSE LET rest == AdjacencyOf(edges, n - 1, v)
             a == edges[n][1]
             b == edges[n][2]
             with_b == IF a = v THEN Append(rest, b) ELSE rest
         IN  IF b = v THEN Append(with_b, a) ELSE with_b

BuildAdjacency(lay) == [v \in VertexKeys(lay) |-> AdjacencyOf(lay.edges, Len(lay.edges), v)]

\* the mutable state after HoneyGraph.__init__
NewGraph(lay, adj) ==
    [edge_state |-> [e \in EdgeKeys(lay) |-> [exists |-> FALSE, traffic |-> 0]],
     vertex_state |-> [v \in VertexKeys(lay) |->
                          [visit_count |-> 0, version |-> 0, open_incident_edges |-> Len(adj[v])]],
     frontier_count |-> Cardinality({v \in VertexKeys(lay) : Len(adj[v]) > 0}),
     active_edges |-> {}]

\* the graph object as one value
Graph ==
    [edge_state |-> edge_state, vertex_state |-> vertex_state,
     frontier_count |-> frontier_count, active_edges |-> active_edges]

Neighbors(vertex_key) == adjacency[vertex_key]

\* iter_existing_neighbors that yields the neighbours behind edges still missing
ExistingNeighborsInverted(g, vertex_key) ==
    SelectSeq(adjacency[vertex_key], LAMBDA nb : ~g.edge_state[EdgeKey(vertex_key, nb)].exists)

ExistingNeighbors(g, vertex_key) ==
    SelectSeq(adjacency[vertex_key], LAMBDA nb : g.edge_state[EdgeKey(vertex_key, nb)].exists)

IsFrontierVertex(g, vertex_key) == g.vertex_state[vertex_key].open_incident_edges > 0

FrontierIsEmpty(g) == g.frontier_count = 0

EdgeState(g, key_a, key_b) == g.edge_state[EdgeKey(key_a, key_b)]

IterActiveEdges(g) == g.active_edges

\* _decrement_open_incident_edges that does not keep the frontier counter
DecrementKeepsFrontierCount(g, vertex_key) ==
    LET state == g.vertex_state[vertex_key]
    IN  IF state.open_incident_edges <= 0 THEN g
        ELSE IF state.open_incident_edges - 1 = 0
             THEN [g EXCEPT !.vertex_state[vertex_key].open_incident_edges = 0,
                            !.vertex_state[vertex_key].version = @ + 1]
             ELSE [g EXCEPT !.vertex_state[vertex_key].open_incident_edges = @ - 1]

\* _decrement_open_incident_edges that bumps the version on every decrement
DecrementBumpsVersionAlways(g, vertex_key) ==
    LET state == g.vertex_state[vertex_key]
    IN  IF state.open_incident_edges <= 0 THEN g
        ELSE IF state.open_incident_edges - 1 = 0
             THEN [g EXCEPT !.vertex_state[vertex_key].open_incident_edges = 0,
                            !.vertex_state[vertex_key].version = @ + 1,
                            !.frontier_count = @ - 1]
             ELSE [g EXCEPT !.vertex_state[vertex_key].open_incident_edges = @ - 1,
                            !.vertex_state[vertex_key].version = @ + 1]

\* _decrement_open_incident_edges with the frontier counter stepped the wrong way
DecrementRaisesFrontierCount(g, vertex_key) ==
    LET state == g.vertex_state[vertex_key]
    IN  IF state.open_incident_edges <= 0 THEN g
        ELSE IF state.open_incident_edges - 1 = 0
             THEN [g EXCEPT !.vertex_state[vertex_key].open_incident_edges = 0,
                            !.vertex_state[vertex_key].version = @ + 1,
                            !.frontier_count = @ + 1]
             ELSE [g EXCEPT !.vertex_state[vertex_key].open_incident_edges = @ - 1]

DecrementOpenIncidentEdges(g, vertex_key) ==
    LET state == g.vertex_state[vertex_key]
    IN  IF state.open_incident_edges <= 0 THEN g
        ELSE IF state.open_incident_edges - 1 = 0
             THEN [g EXCEPT !.vertex_state[vertex_key].open_incident_edges = 0,
                            !.vertex_state[vertex_key].version = @ + 1,
                            !.frontier_count = @ - 1]
             ELSE [g EXCEPT !.vertex_state[vertex_key].open_incident_edges = @ - 1]

\* ensure_edge_exists that closes the edge at its second endpoint only
EnsureEdgeExistsOneEnd(g, key_a, key_b) ==
    LET key == EdgeKey(key_a, key_b)
    IN  IF g.edge_state[key].exists THEN g
        ELSE DecrementOpenIncidentEdges(
                 [g EXCEPT !.edge_state[key].exists = TRUE,
                           !.active_edges = @ \cup {key}],
                 key_b)

\* ensure_edge_exists that sets the flag without tracking the edge as active
EnsureEdgeExistsUntracked(g, key_a, key_b) ==
    LET key == EdgeKey(key_a, key_b)
    IN  IF g.edge_state[key].exists THEN g
        ELSE DecrementOpenIncidentEdges(
                 DecrementOpenIncidentEdges(
                     [g EXCEPT !.edge_state[key].exists = TRUE],
                     key_a),
                 key_b)

\* ensure_edge_exists without the early return for an edge that already exists
EnsureEdgeExistsUnguarded(g, key_a, key_b) ==
    LET key == EdgeKey(key_a, key_b)
    IN  DecrementOpenIncidentEdges(
            DecrementOpenIncidentEdges(
                [g EXCEPT !.edge_state[key].exists = TRUE,
                          !.active_edges = @ \cup {key}],
                key_a),
            key_b)

EnsureEdgeExists(g, key_a, key_b) ==
    LET key == EdgeKey(key_a, key_b)
    IN  IF g.edge_state[key].exists THEN g
        ELSE DecrementOpenIncidentEdges(
                 DecrementOpenIncidentEdges(
                     [g EXCEPT !.edge_state[key].exists = TRUE,
                               !.active_edges = @ \cup {key}],
                     key_a),
                 key_b)

\* the directed start edges choose_random_start_edge can return: key_b any vertex
\* with neighbours (vertices without are drawn again), key_a any entry of its list
StartEdges ==
    UNION {{<<adjacency[b][k], b>> : k \in 1..Len(adjacency[b])} : b \in DOMAIN adjacency}

ChooseRandomStartEdge(draw) == draw.start

-----------------------------------------------------------------------------
(* GrowthStepper *)

PreferNewProbabilityDefault == 85

\* the values rng.random() is drawn from, in hundredths
RandomPercents == {0, 49, 50, 84, 85, 99}

\* max(0.0, min(1.0, prefer_new_probability)), in hundredths
ClampProbability(p) == IF p < 0 THEN 0 ELSE IF p > 100 THEN 100 ELSE p

PreferNewProbability == ClampProbability(PreferNewProbabilityDefault)

\* Agent() as the dataclass defaults build it
NewAgent ==
    [prev |-> None, curr |-> None, mode |-> "GROW",
     travel_target |-> None, travel_target_version |-> -1, travel_path |-> <<>>]

\* _clear_travel_plan that leaves the version stamp behind
ClearTravelPlanKeepsVersion(agent) ==
    [agent EXCEPT !.travel_target = None, !.travel_path = <<>>]

ClearTravelPlan(agent) ==
    [agent EXCEPT !.travel_target = None, !.travel_target_version = -1, !.travel_path = <<>>]

EnterTravelMode(agent) == ClearTravelPlan([agent EXCEPT !.mode = "TRAVEL"])

AddTraffic(g, key_a, key_b) == [g EXCEPT !.edge_state[EdgeKey(key_a, key_b)].traffic = @ + 1]

\* a visit that also stamps the vertex with a new version
AddVisitBumpsVersion(g, vertex_key) ==
    [g EXCEPT !.vertex_state[vertex_key].visit_count = @ + 1,
              !.vertex_state[vertex_key].version = @ + 1]

AddVisit(g, vertex_key) == [g EXCEPT !.vertex_state[vertex_key].visit_count = @ + 1]

\* _initialize_agent that counts both endpoints of the start edge as visited
InitializeAgentVisitsBoth(g, agent, draw) ==
    LET ab == ChooseRandomStartEdge(draw)
        a == ab[1]
        b == ab[2]
    IN  [g |-> AddVisit(AddVisit(AddTraffic(EnsureEdgeExists(g, a, b), a, b), b), a),
         agent |-> ClearTravelPlan([agent EXCEPT !.prev = a, !.curr = b, !.mode = "GROW"])]

\* _initialize_agent that places the agent against the direction of the start edge
InitializeAgentReversed(g, agent, draw) ==
    LET ab == ChooseRandomStartEdge(draw)
        a == ab[1]
        b == ab[2]
    IN  [g |-> AddVisit(AddTraffic(EnsureEdgeExists(g, a, b), a, b), b),
         agent |-> ClearTravelPlan([agent EXCEPT !.prev = b, !.curr = a, !.mode = "GROW"])]

InitializeAgent(g, agent, draw) ==
    LET ab == ChooseRandomStartEdge(draw)
        a == ab[1]
        b == ab[2]
    IN  [g |-> AddVisit(AddTraffic(EnsureEdgeExists(g, a, b), a, b), b),
         agent |-> ClearTravelPlan([agent EXCEPT !.prev = a, !.curr = b, !.mode = "GROW"])]

CrossZ(ax, ay, bx, by) == ax * by - ay * bx

ForwardOptionsLeftRight(prev, curr) ==
    LET candidates == SelectSeq(Neighbors(curr), LAMBDA ns : ns # prev)
    IN  IF Len(candidates) = 0 THEN <<None, None>>
        ELSE IF Len(candidates) = 1 THEN <<candidates[1], None>>
        ELSE LET vertex_prev == layout.px[prev]
                 vertex_curr == layout.px[curr]
                 ver_cand_0 == layout.px[candidates[1]]
                 ver_cand_1 == layout.px[candidates[2]]
                 fwd_dir_x == vertex_curr[1] - vertex_prev[1]
                 fwd_dir_y == -(vertex_curr[2] - vertex_prev[2])
                 c0_x == ver_cand_0[1] - vertex_curr[1]
                 c0_y == -(ver_cand_0[2] - vertex_curr[2])
                 c1_x == ver_cand_1[1] - vertex_curr[1]
                 c1_y == -(ver_cand_1[2] - vertex_curr[2])
                 cross0 == CrossZ(fwd_dir_x, fwd_dir_y, c0_x, c0_y)
                 cross1 == CrossZ(fwd_dir_x, fwd_dir_y, c1_x, c1_y)
             IN  IF cross0 >= cross1 THEN <<candidates[1], candidates[2]>>
                 ELSE <<candidates[2], candidates[1]>>

\* _choose_next that gives up instead of taking the existing edge
ChooseNextBlocksOnExisting(g, curr, candidates, draw) ==
    IF Len(candidates) = 1 THEN candidates[1]
    ELSE LET c0 == candidates[1]
             c1 == candidates[2]
             e0_new == ~g.edge_state[EdgeKey(curr, c0)].exists
             e1_new == ~g.edge_state[EdgeKey(curr, c1)].exists
         IN  IF e0_new /\ ~e1_new THEN (IF draw.random < PreferNewProbability THEN c0 ELSE None)
             ELSE IF e1_new /\ ~e0_new THEN (IF draw.random < PreferNewProbability THEN c1 ELSE None)
             ELSE IF e0_new /\ e1_new THEN (IF draw.random < 50 THEN c0 ELSE c1)
             ELSE None

\* _choose_next that always takes the new edge when exactly one is new
ChooseNextAlwaysNew(g, curr, candidates, draw) ==
    IF Len(candidates) = 1 THEN candidates[1]
    ELSE LET c0 == candidates[1]
             c1 == candidates[2]
             e0_new == ~g.edge_state[EdgeKey(curr, c0)].exists
             e1_new == ~g.edge_state[EdgeKey(curr, c1)].exists
         IN  IF e0_new /\ ~e1_new THEN c0
             ELSE IF e1_new /\ ~e0_new THEN c1
             ELSE IF e0_new /\ e1_new THEN (IF draw.random < 50 THEN c0 ELSE c1)
             ELSE None

ChooseNext(g, curr, candidates, draw) ==
    IF Len(candidates) = 1 THEN candidates[1]
    ELSE LET c0 == candidates[1]
             c1 == candidates[2]
             e0_new == ~g.edge_state[EdgeKey(curr, c0)].exists
             e1_new == ~g.edge_state[EdgeKey(curr, c1)].exists
         IN  IF e0_new /\ ~e1_new THEN (IF draw.random < PreferNewProbability THEN c0 ELSE c1)
             ELSE IF e1_new /\ ~e0_new THEN (IF draw.random < PreferNewProbability THEN c1 ELSE c0)
             ELSE IF e0_new /\ e1_new THEN (IF draw.random < 50 THEN c0 ELSE c1)
             ELSE None

\* whether _choose_next calls rng.random()
ChooseNextDraws(g, curr, candidates) ==
    /\ Len(candidates) # 1
    /\ \/ ~g.edge_state[EdgeKey(curr, candidates[1])].exists
       \/ ~g.edge_state[EdgeKey(curr, candidates[2])].exists

\* _step_grow that advances curr and leaves prev behind
StepGrowKeepsPrev(g, agent, draw) ==
    LET prev == agent.prev
        curr == agent.curr
        left_right == ForwardOptionsLeftRight(prev, curr)
        candidates == SelectSeq(left_right, LAMBDA vertex : vertex # None)
        next_vertex == ChooseNext(g, curr, candidates, draw)
    IN  IF Len(candidates) = 0
        THEN [progressed |-> FALSE, g |-> g, agent |-> agent, drew |-> FALSE]
        ELSE IF next_vertex = None
        THEN [progressed |-> FALSE, g |-> g, agent |-> agent,
              drew |-> ChooseNextDraws(g, curr, candidates)]
        ELSE [progressed |-> TRUE, drew |-> ChooseNextDraws(g, curr, candidates),
              g |-> AddVisit(AddTraffic(EnsureEdgeExists(g, curr, next_vertex), curr, next_vertex),
                             next_vertex),
              agent |-> [agent EXCEPT !.curr = next_vertex]]

\* _step_grow that counts the traversal without materialising the edge
StepGrowWithoutEnsure(g, agent, draw) ==
    LET prev == agent.prev
        curr == agent.curr
        left_right == ForwardOptionsLeftRight(prev, curr)
        candidates == SelectSeq(left_right, LAMBDA vertex : vertex # None)
        next_vertex == ChooseNext(g, curr, candidates, draw)
    IN  IF Len(candidates) = 0
        THEN [progressed |-> FALSE, g |-> g, agent |-> agent, drew |-> FALSE]
        ELSE IF next_vertex = None
        THEN [progressed |-> FALSE, g |-> g, agent |-> agent,
              drew |-> ChooseNextDraws(g, curr, candidates)]
        ELSE [progressed |-> TRUE, drew |-> ChooseNextDraws(g, curr, candidates),
              g |-> AddVisit(AddTraffic(g, curr, next_vertex), next_vertex),
              agent |-> [agent EXCEPT !.prev = curr, !.curr = next_vertex]]

\* [progressed, g, agent, drew]
StepGrow(g, agent, draw) ==
    LET prev == agent.prev
        curr == agent.curr
        left_right == ForwardOptionsLeftRight(prev, curr)
        candidates == SelectSeq(left_right, LAMBDA vertex : vertex # None)
        next_vertex == ChooseNext(g, curr, candidates, draw)
    IN  IF Len(candidates) = 0
        THEN [progressed |-> FALSE, g |-> g, agent |-> agent, drew |-> FALSE]
        ELSE IF next_vertex = None
        THEN [progressed |-> FALSE, g |-> g, agent |-> agent,
              drew |-> ChooseNextDraws(g, curr, candidates)]
        ELSE [progressed |-> TRUE, drew |-> ChooseNextDraws(g, curr, candidates),
              g |-> AddVisit(AddTraffic(EnsureEdgeExists(g, curr, next_vertex), curr, next_vertex),
                             next_vertex),
              agent |-> [agent EXCEPT !.prev = curr, !.curr = next_vertex]]

\* _is_travel_target_invalid that never compares the version stamp
IsTravelTargetInvalidNever(g, agent) == FALSE

IsTravelTargetInvalid(g, agent) ==
    IF agent.travel_target = None THEN FALSE
    ELSE g.vertex_state[agent.travel_target].version # agent.travel_target_version

RECURSIVE ReconstructPathReversed(_, _, _)
ReconstructPathReversed(parent, start, current_vertex) ==
    IF current_vertex = start THEN <<>>
    ELSE <<current_vertex>> \o ReconstructPathReversed(parent, start, parent[current_vertex])

Reverse(seq) == [n \in 1..Len(seq) |-> seq[Len(seq) + 1 - n]]

\* _reconstruct_path that does not reverse the parent chain
ReconstructPathBackwards(parent, start, target) == ReconstructPathReversed(parent, start, target)

ReconstructPath(parent, start, target) == Reverse(ReconstructPathReversed(parent, start, target))

\* the for-loop over the existing neighbours nbs[n..] of the dequeued vertex
RECURSIVE BfsScanNeighbors(_, _, _, _, _, _, _)
BfsScanNeighbors(g, vertex, nbs, n, visited, parent, open_queue) ==
    IF n > Len(nbs)
    THEN [found |-> FALSE, target |-> None, visited |-> visited, parent |-> parent,
          open_queue |-> open_queue]
    ELSE LET neighbor == nbs[n]
         IN  IF neighbor \in visited
             THEN BfsScanNeighbors(g, vertex, nbs, n + 1, visited, parent, open_queue)
             ELSE IF IsFrontierVertex(g, neighbor)
                  THEN [found |-> TRUE, target |-> neighbor, visited |-> visited \cup {neighbor},
                        parent |-> (neighbor :> vertex) @@ parent, open_queue |-> open_queue]
                  ELSE BfsScanNeighbors(g, vertex, nbs, n + 1, visited \cup {neighbor},
                                        (neighbor :> vertex) @@ parent,
                                        Append(open_queue, neighbor))

\* the while-loop over open_queue
RECURSIVE BfsLoop(_, _, _, _, _)
BfsLoop(g, start, visited, parent, open_queue) ==
    IF Len(open_queue) = 0 THEN <<None, <<>>>>
    ELSE LET vertex == Head(open_queue)
             scan == BfsScanNeighbors(g, vertex, ExistingNeighbors(g, vertex), 1,
                                      visited, parent, Tail(open_queue))
         IN  IF scan.found
             THEN <<scan.target, ReconstructPath(scan.parent, start, scan.target)>>
             ELSE BfsLoop(g, start, scan.visited, scan.parent, scan.open_queue)

\* <<target, path>>
BfsToNearestFrontier(g, start) ==
    IF IsFrontierVertex(g, start) THEN <<start, <<>>>>
    ELSE BfsLoop(g, start, {start}, [v \in {} |-> None], <<start>>)

\* _plan_travel_to_nearest_frontier that settles for curr when BFS finds nothing
PlanTravelFallsBackToCurr(g, agent) ==
    LET target_path == BfsToNearestFrontier(g, agent.curr)
        target == IF target_path[1] = None THEN agent.curr ELSE target_path[1]
    IN  [planned |-> TRUE,
         agent |-> [agent EXCEPT !.travel_target = target,
                                 !.travel_target_version = g.vertex_state[target].version,
                                 !.travel_path = target_path[2]]]

\* [planned, agent]
PlanTravelToNearestFrontier(g, agent) ==
    LET target_path == BfsToNearestFrontier(g, agent.curr)
        target == target_path[1]
    IN  IF target = None THEN [planned |-> FALSE, agent |-> agent]
        ELSE [planned |-> TRUE,
              agent |-> [agent EXCEPT !.travel_target = target,
                                      !.travel_target_version = g.vertex_state[target].version,
                                      !.travel_path = target_path[2]]]

\* _traverse_one_travel_edge that counts the traversal but not the visit
TraverseCountsNoVisit(g, agent) ==
    IF Len(agent.travel_path) = 0 THEN [g |-> g, agent |-> agent]
    ELSE LET next_vertex == Head(agent.travel_path)
         IN  [g |-> AddTraffic(g, agent.curr, next_vertex),
              agent |-> [agent EXCEPT !.travel_path = Tail(@),
                                      !.prev = agent.curr, !.curr = next_vertex]]

\* _traverse_one_travel_edge that goes straight to the end of the path
TraverseJumpsToTarget(g, agent) ==
    IF Len(agent.travel_path) = 0 THEN [g |-> g, agent |-> agent]
    ELSE LET next_vertex == agent.travel_path[Len(agent.travel_path)]
         IN  [g |-> AddVisit(AddTraffic(g, agent.curr, next_vertex), next_vertex),
              agent |-> [agent EXCEPT !.travel_path = <<>>,
                                      !.prev = agent.curr, !.curr = next_vertex]]

\* _traverse_one_travel_edge that reads the next vertex without removing it
TraverseKeepsPath(g, agent) ==
    IF Len(agent.travel_path) = 0 THEN [g |-> g, agent |-> agent]
    ELSE LET next_vertex == Head(agent.travel_path)
         IN  [g |-> AddVisit(AddTraffic(g, agent.curr, next_vertex), next_vertex),
              agent |-> [agent EXCEPT !.prev = agent.curr, !.curr = next_vertex]]

\* [g, agent]
TraverseOneTravelEdge(g, agent) ==
    IF Len(agent.travel_path) = 0 THEN [g |-> g, agent |-> agent]
    ELSE LET next_vertex == Head(agent.travel_path)
         IN  [g |-> AddVisit(AddTraffic(g, agent.curr, next_vertex), next_vertex),
              agent |-> [agent EXCEPT !.travel_path = Tail(@),
                                      !.prev = agent.curr, !.curr = next_vertex]]

\* what one invocation did, for the properties below; drew: it called the rng
NoInfo ==
    [kind |-> "none", blocked |-> FALSE, cancelled |-> FALSE, planning |-> "none",
     plan_start |-> None, plan_target |-> None, plan_path |-> <<>>, arrived |-> FALSE,
     drew |-> FALSE]

\* _step_travel that keeps the travel plan when it arrives
StepTravelKeepsPlanOnArrival(g, agent, blocked) ==
    LET invalid == IsTravelTargetInvalid(g, agent)
        checked == IF invalid THEN ClearTravelPlan(agent) ELSE agent
        needs_plan == checked.travel_target = None \/ Len(checked.travel_path) = 0
        plan == PlanTravelToNearestFrontier(g, checked)
        planned == IF needs_plan THEN plan.agent ELSE checked
        hop == TraverseOneTravelEdge(g, planned)
        arrived == /\ hop.agent.travel_target # None
                   /\ hop.agent.curr = hop.agent.travel_target
                   /\ Len(hop.agent.travel_path) = 0
        info == [NoInfo EXCEPT !.kind = "travel", !.blocked = blocked, !.cancelled = invalid]
    IN  IF needs_plan /\ ~plan.planned
        THEN [g |-> g, agent |-> checked, info |-> [info EXCEPT !.planning = "failed"]]
        ELSE [g |-> hop.g,
              agent |-> IF arrived THEN [hop.agent EXCEPT !.mode = "GROW"]
                        ELSE hop.agent,
              info |-> [info EXCEPT !.planning = IF needs_plan THEN "ok" ELSE "none",
                                    !.plan_start = IF needs_plan THEN checked.curr ELSE None,
                                    !.plan_target = IF needs_plan THEN planned.travel_target ELSE None,
                                    !.plan_path = IF needs_plan THEN planned.travel_path ELSE <<>>,
                                    !.arrived = arrived]]

\* _step_travel without the switch back to GROW on arrival
StepTravelNeverArrives(g, agent, blocked) ==
    LET invalid == IsTravelTargetInvalid(g, agent)
        checked == IF invalid THEN ClearTravelPlan(agent) ELSE agent
        needs_plan == checked.travel_target = None \/ Len(checked.travel_path) = 0
        plan == PlanTravelToNearestFrontier(g, checked)
        planned == IF needs_plan THEN plan.agent ELSE checked
        hop == TraverseOneTravelEdge(g, planned)
        arrived == /\ hop.agent.travel_target # None
                   /\ hop.agent.curr = hop.agent.travel_target
                   /\ Len(hop.agent.travel_path) = 0
        info == [NoInfo EXCEPT !.kind = "travel", !.blocked = blocked, !.cancelled = invalid]
    IN  IF needs_plan /\ ~plan.planned
        THEN [g |-> g, agent |-> checked, info |-> [info EXCEPT !.planning = "failed"]]
        ELSE [g |-> hop.g,
              agent |-> hop.agent,
              info |-> [info EXCEPT !.planning = IF needs_plan THEN "ok" ELSE "none",
                                    !.plan_start = IF needs_plan THEN checked.curr ELSE None,
                                    !.plan_target = IF needs_plan THEN planned.travel_target ELSE None,
                                    !.plan_path = IF needs_plan THEN planned.travel_path ELSE <<>>,
                                    !.arrived = arrived]]

\* [g, agent, info]
\* travel step that follows its stored plan without the soft-cancel check
StepTravelTrustsPlan(g, agent, blocked) ==
    LET needs_plan == agent.travel_target = None \/ Len(agent.travel_path) = 0
        plan == PlanTravelToNearestFrontier(g, agent)
        planned == IF needs_plan THEN plan.agent ELSE agent
        hop == TraverseOneTravelEdge(g, planned)
        arrived == /\ hop.agent.travel_target # None
                   /\ hop.agent.curr = hop.agent.travel_target
                   /\ Len(hop.agent.travel_path) = 0
        info == [NoInfo EXCEPT !.kind = "travel", !.blocked = blocked]
    IN  IF needs_plan /\ ~plan.planned
        THEN [g |-> g, agent |-> agent, info |-> [info EXCEPT !.planning = "failed"]]
        ELSE [g |-> hop.g,
              agent |-> IF arrived THEN ClearTravelPlan([hop.agent EXCEPT !.mode = "GROW"])
                        ELSE hop.agent,
              info |-> [info EXCEPT !.planning = IF needs_plan THEN "ok" ELSE "none",
                                    !.plan_start = IF needs_plan THEN agent.curr ELSE None,
                                    !.plan_target = IF needs_plan THEN planned.travel_target ELSE None,
                                    !.plan_path = IF needs_plan THEN planned.travel_path ELSE <<>>,
                                    !.arrived = arrived]]

StepTravel(g, agent, blocked) ==
    LET invalid == IsTravelTargetInvalid(g, agent)
        checked == IF invalid THEN ClearTravelPlan(agent) ELSE agent
        needs_plan == checked.travel_target = None \/ Len(checked.travel_path) = 0
        plan == PlanTravelToNearestFrontier(g, checked)
        planned == IF needs_plan THEN plan.agent ELSE checked
        hop == TraverseOneTravelEdge(g, planned)
        arrived == /\ hop.agent.travel_target # None
                   /\ hop.agent.curr = hop.agent.travel_target
                   /\ Len(hop.agent.travel_path) = 0
        info == [NoInfo EXCEPT !.kind = "travel", !.blocked = blocked, !.cancelled = invalid]
    IN  IF needs_plan /\ ~plan.planned
        THEN [g |-> g, agent |-> checked, info |-> [info EXCEPT !.planning = "failed"]]
        ELSE [g |-> hop.g,
              agent |-> IF arrived THEN ClearTravelPlan([hop.agent EXCEPT !.mode = "GROW"])
                        ELSE hop.agent,
              info |-> [info EXCEPT !.planning = IF needs_plan THEN "ok" ELSE "none",
                                    !.plan_start = IF needs_plan THEN checked.curr ELSE None,
                                    !.plan_target = IF needs_plan THEN planned.travel_target ELSE None,
                                    !.plan_path = IF needs_plan THEN planned.travel_path ELSE <<>>,
                                    !.arrived = arrived]]

\* step that returns once blocked growth has entered travel mode
StepReturnsWhenBlocked(g, agent, draw) ==
    IF FrontierIsEmpty(g)
    THEN [g |-> g, agent |-> agent, info |-> [NoInfo EXCEPT !.kind = "frontier_empty"]]
    ELSE IF agent.prev = None \/ agent.curr = None
    THEN LET init == InitializeAgent(g, agent, draw)
         IN  [g |-> init.g, agent |-> init.agent,
              info |-> [NoInfo EXCEPT !.kind = "init", !.drew = TRUE]]
    ELSE IF agent.mode = "GROW"
    THEN LET grow == StepGrow(g, agent, draw)
         IN  IF grow.progressed
             THEN [g |-> grow.g, agent |-> grow.agent,
                   info |-> [NoInfo EXCEPT !.kind = "grow", !.drew = grow.drew]]
             ELSE [g |-> g, agent |-> EnterTravelMode(agent),
                   info |-> [NoInfo EXCEPT !.kind = "travel", !.blocked = TRUE]]
    ELSE StepTravel(g, agent, FALSE)

\* step with the frontier_is_empty check in front of the travel step only
StepChecksFrontierBeforeTravel(g, agent, draw) ==
    LET unchanged == [g |-> g, agent |-> agent,
                      info |-> [NoInfo EXCEPT !.kind = "frontier_empty"]]
    IN  IF agent.prev = None \/ agent.curr = None
        THEN IF FrontierIsEmpty(g) THEN unchanged
             ELSE LET init == InitializeAgent(g, agent, draw)
                  IN  [g |-> init.g, agent |-> init.agent,
                       info |-> [NoInfo EXCEPT !.kind = "init", !.drew = TRUE]]
        ELSE IF agent.mode = "GROW"
        THEN LET grow == StepGrow(g, agent, draw)
             IN  IF grow.progressed
                 THEN [g |-> grow.g, agent |-> grow.agent,
                       info |-> [NoInfo EXCEPT !.kind = "grow", !.drew = grow.drew]]
                 ELSE IF FrontierIsEmpty(g) THEN unchanged
                 ELSE StepTravel(g, EnterTravelMode(agent), TRUE)
        ELSE IF FrontierIsEmpty(g) THEN unchanged
        ELSE StepTravel(g, agent, FALSE)

\* GrowthStepper.step: [g, agent, info]
Step(g, agent, draw) ==
    IF FrontierIsEmpty(g)
    THEN [g |-> g, agent |-> agent, info |-> [NoInfo EXCEPT !.kind = "frontier_empty"]]
    ELSE IF agent.prev = None \/ agent.curr = None
    THEN LET init == InitializeAgent(g, agent, draw)
         IN  [g |-> init.g, agent |-> init.agent,
              info |-> [NoInfo EXCEPT !.kind = "init", !.drew = TRUE]]
    ELSE IF agent.mode = "GROW"
    THEN LET grow == StepGrow(g, agent, draw)
         IN  IF grow.progressed
             THEN [g |-> grow.g, agent |-> grow.agent,
                   info |-> [NoInfo EXCEPT !.kind = "grow", !.drew = grow.drew]]
             ELSE StepTravel(g, EnterTravelMode(agent), TRUE)
    ELSE StepTravel(g, agent, FALSE)

\* the random values an invocation can consume: a start edge for an agent that
\* is not initialized, one rng.random() otherwise
Draws(g, agent) ==
    IF FrontierIsEmpty(g) THEN {[start |-> None, random |-> 0]}
    ELSE IF agent.prev = None \/ agent.curr = None
    THEN {[start |-> e, random |-> 0] : e \in StartEdges}
    ELSE {[start |-> None, random |-> r] : r \in RandomPercents}

-----------------------------------------------------------------------------
(* SimulationTimingConfig and the frame clock *)

EdgeTraverseMs == 180
TravelVertexDwellMs == 120

\* the draw loop's frame period: now_ms = int(millis()) advances by whole frames
FrameMs == 90

\* what now_ms can advance by from one AgentController.update to the next
FrameDeltas == {0, FrameMs, 2 * FrameMs}

MaxNowMs == MaxFrames * FrameMs

-----------------------------------------------------------------------------
(* _AgentAnimator *)

NewAnimator ==
    [phase |-> "IDLE", pos_px |-> <<0, 0>>, move |-> None, dwell_until_ms |-> 0,
     last_mode |-> "GROW"]

Max(a, b) == IF a >= b THEN a ELSE b
Min(a, b) == IF a <= b THEN a ELSE b

\* an interpolation measured from the far end
LerpFromStop(start, stop, num, den) == stop + ((stop - start) * num) \div den

\* py5.lerp(start, stop, amt) with amt = num / den
Lerp(start, stop, num, den) == start + ((stop - start) * num) \div den

DwellMsForMode(mode) == IF mode = "TRAVEL" THEN TravelVertexDwellMs ELSE 0

\* _update_moving that leaves the finished Move in place
UpdateMovingKeepsMove(anim, now) ==
    LET from_px == layout.px[anim.move.from_key]
        to_px == layout.px[anim.move.to_key]
        duration_ms == Max(1, anim.move.end_ms - anim.move.start_ms)
        t_num == Min(duration_ms, Max(0, now - anim.move.start_ms))
    IN  IF t_num < duration_ms
        THEN [anim EXCEPT !.pos_px = <<Lerp(from_px[1], to_px[1], t_num, duration_ms),
                                       Lerp(from_px[2], to_px[2], t_num, duration_ms)>>]
        ELSE [anim EXCEPT !.pos_px = to_px,
                          !.phase = "DWELLING",
                          !.dwell_until_ms = now + DwellMsForMode(anim.last_mode)]

\* _update_moving measuring the move from time 0 instead of from its start
UpdateMovingFromZero(anim, now) ==
    LET from_px == layout.px[anim.move.from_key]
        to_px == layout.px[anim.move.to_key]
        duration_ms == Max(1, anim.move.end_ms)
        t_num == Min(duration_ms, Max(0, now - anim.move.start_ms))
    IN  IF t_num < duration_ms
        THEN [anim EXCEPT !.pos_px = <<Lerp(from_px[1], to_px[1], t_num, duration_ms),
                                       Lerp(from_px[2], to_px[2], t_num, duration_ms)>>]
        ELSE [anim EXCEPT !.pos_px = to_px,
                          !.move = None,
                          !.phase = "DWELLING",
                          !.dwell_until_ms = now + DwellMsForMode(anim.last_mode)]

\* _update_moving without the transition to DWELLING at the end of the move
UpdateMovingNeverArrives(anim, now) ==
    LET from_px == layout.px[anim.move.from_key]
        to_px == layout.px[anim.move.to_key]
        duration_ms == Max(1, anim.move.end_ms - anim.move.start_ms)
        t_num == Min(duration_ms, Max(0, now - anim.move.start_ms))
    IN  [anim EXCEPT !.pos_px = <<Lerp(from_px[1], to_px[1], t_num, duration_ms),
                                   Lerp(from_px[2], to_px[2], t_num, duration_ms)>>]

\* the animator after _update_moving
UpdateMoving(anim, now) ==
    LET from_px == layout.px[anim.move.from_key]
        to_px == layout.px[anim.move.to_key]
        duration_ms == Max(1, anim.move.end_ms - anim.move.start_ms)
        \* t_clamped = t_num / duration_ms
        t_num == Min(duration_ms, Max(0, now - anim.move.start_ms))
    IN  IF t_num < duration_ms
        THEN [anim EXCEPT !.pos_px = <<Lerp(from_px[1], to_px[1], t_num, duration_ms),
                                       Lerp(from_px[2], to_px[2], t_num, duration_ms)>>]
        ELSE [anim EXCEPT !.pos_px = to_px,
                          !.move = None,
                          !.phase = "DWELLING",
                          !.dwell_until_ms = now + DwellMsForMode(anim.last_mode)]

\* _start_next_move that does not record the mode the step left
AnimateStepKeepsLastMode(anim, now, old_prev, old_curr, stepped) ==
    LET moved == (old_curr # stepped.agent.curr) \/ (old_prev # stepped.agent.prev)
    IN  [anim |-> IF ~moved
                  THEN [anim EXCEPT !.pos_px = layout.px[stepped.agent.curr],
                                    !.phase = "DWELLING",
                                    !.dwell_until_ms = now + 1]
                  ELSE [anim EXCEPT !.move = [from_key |-> stepped.agent.prev,
                                              to_key |-> stepped.agent.curr,
                                              start_ms |-> now,
                                              end_ms |-> now + EdgeTraverseMs],
                                    !.phase = "MOVING",
                                    !.pos_px = layout.px[stepped.agent.prev]],
         g |-> stepped.g, agent |-> stepped.agent, info |-> stepped.info]

\* _start_next_move that animates from the vertex behind the agent before the step
AnimateStepMovesFromOldPrev(anim, now, old_prev, old_curr, stepped) ==
    LET moved == (old_curr # stepped.agent.curr) \/ (old_prev # stepped.agent.prev)
        seen == [anim EXCEPT !.last_mode = stepped.agent.mode]
        from_key == IF old_prev # None THEN old_prev ELSE stepped.agent.prev
    IN  [anim |-> IF ~moved
                  THEN [seen EXCEPT !.pos_px = layout.px[stepped.agent.curr],
                                    !.phase = "DWELLING",
                                    !.dwell_until_ms = now + 1]
                  ELSE [seen EXCEPT !.move = [from_key |-> from_key,
                                              to_key |-> stepped.agent.curr,
                                              start_ms |-> now,
                                              end_ms |-> now + EdgeTraverseMs],
                                    !.phase = "MOVING",
                                    !.pos_px = layout.px[from_key]],
         g |-> stepped.g, agent |-> stepped.agent, info |-> stepped.info]

\* _start_next_move that stops the animator when the step left the agent in place
AnimateStepStopsWhenUnchanged(anim, now, old_prev, old_curr, stepped) ==
    LET moved == (old_curr # stepped.agent.curr) \/ (old_prev # stepped.agent.prev)
        seen == [anim EXCEPT !.last_mode = stepped.agent.mode]
    IN  [anim |-> IF ~moved
                  THEN [seen EXCEPT !.pos_px = layout.px[stepped.agent.curr],
                                    !.phase = "STOPPED"]
                  ELSE [seen EXCEPT !.move = [from_key |-> stepped.agent.prev,
                                              to_key |-> stepped.agent.curr,
                                              start_ms |-> now,
                                              end_ms |-> now + EdgeTraverseMs],
                                    !.phase = "MOVING",
                                    !.pos_px = layout.px[stepped.agent.prev]],
         g |-> stepped.g, agent |-> stepped.agent, info |-> stepped.info]

\* the animator once stepper.step has returned: _start_next_move from
\* "self._last_mode = agent.mode" on, stepped being the graph and agent it left
AnimateStep(anim, now, old_prev, old_curr, stepped) ==
    LET moved == (old_curr # stepped.agent.curr) \/ (old_prev # stepped.agent.prev)
        seen == [anim EXCEPT !.last_mode = stepped.agent.mode]
    IN  [anim |-> IF ~moved
                  THEN [seen EXCEPT !.pos_px = layout.px[stepped.agent.curr],
                                    !.phase = "DWELLING",
                                    !.dwell_until_ms = now + 1]
                  ELSE [seen EXCEPT !.move = [from_key |-> stepped.agent.prev,
                                              to_key |-> stepped.agent.curr,
                                              start_ms |-> now,
                                              end_ms |-> now + EdgeTraverseMs],
                                    !.phase = "MOVING",
                                    !.pos_px = layout.px[stepped.agent.prev]],
         g |-> stepped.g, agent |-> stepped.agent, info |-> stepped.info]

\* _start_next_move that dwells, instead of stopping, on an empty frontier
StartNextMoveDwellsOnEmpty(anim, now, g, agent, draw) ==
    IF FrontierIsEmpty(g)
    THEN [anim |-> [anim EXCEPT !.phase = "DWELLING", !.dwell_until_ms = now + 1],
          g |-> g, agent |-> agent, info |-> NoInfo]
    ELSE AnimateStep(anim, now, agent.prev, agent.curr, Step(g, agent, draw))

\* [anim, g, agent, info] after _start_next_move
StartNextMove(anim, now, g, agent, draw) ==
    IF FrontierIsEmpty(g)
    THEN [anim |-> [anim EXCEPT !.phase = "STOPPED"], g |-> g, agent |-> agent, info |-> NoInfo]
    ELSE AnimateStep(anim, now, agent.prev, agent.curr, Step(g, agent, draw))

\* an update that asks for the next step in any dwell, due or not
RequestsStepIgnoresDwell(anim, now) == anim.phase \in {"IDLE", "DWELLING"}

\* whether _AgentAnimator.update reaches _start_next_move
RequestsStep(anim, now) ==
    \/ anim.phase = "IDLE"
    \/ anim.phase = "DWELLING" /\ ~(now < anim.dwell_until_ms)

\* [anim, g, agent, info] after _AgentAnimator.update
UpdateAnimator(anim, now, g, agent, draw) ==
    IF anim.phase = "STOPPED" THEN [anim |-> anim, g |-> g, agent |-> agent, info |-> NoInfo]
    ELSE IF RequestsStep(anim, now) THEN StartNextMove(anim, now, g, agent, draw)
    ELSE IF anim.phase = "MOVING"
    THEN [anim |-> UpdateMoving(anim, now), g |-> g, agent |-> agent, info |-> NoInfo]
    ELSE [anim |-> anim, g |-> g, agent |-> agent, info |-> NoInfo]

\* the random values the update of one runtime can consume
UpdateDraws(anim, now, g, agent) ==
    IF RequestsStep(anim, now) THEN Draws(g, agent) ELSE {[start |-> None, random |-> 0]}

-----------------------------------------------------------------------------
(* AgentController *)

\* the controller and the graph it is updated against, as one value
World == [g |-> Graph, agents |-> agents, animators |-> animators, last |-> last]

\* an update that pushes cancellation: it drops the travel plan of every agent
\* whose target changed version
UpdatedWorldCancelsStalePlans(w, i, r) ==
    [g |-> r.g,
     agents |-> [j \in Agents |->
                    IF j = i THEN r.agent
                    ELSE IF IsTravelTargetInvalid(r.g, w.agents[j])
                    THEN ClearTravelPlan(w.agents[j])
                    ELSE w.agents[j]],
     animators |-> [w.animators EXCEPT ![i] = r.anim],
     last |-> [j \in Agents |-> IF j = i THEN r.info ELSE w.last[j]]]

\* the world once AgentController.update has updated runtime i with result r
UpdatedWorld(w, i, r) ==
    [g |-> r.g,
     agents |-> [w.agents EXCEPT ![i] = r.agent],
     animators |-> [w.animators EXCEPT ![i] = r.anim],
     last |-> [j \in Agents |-> IF j = i THEN r.info ELSE w.last[j]]]

\* AgentController.update going through the runtimes last to first
RECURSIVE ControllerUpdateReversed(_, _, _)
ControllerUpdateReversed(w, now, i) ==
    IF i > NumAgents THEN {w}
    ELSE UNION {
            ControllerUpdateReversed(
                UpdatedWorld(w, NumAgents + 1 - i,
                             UpdateAnimator(w.animators[NumAgents + 1 - i], now, w.g,
                                            w.agents[NumAgents + 1 - i], draw)),
                now, i + 1)
            : draw \in UpdateDraws(w.animators[NumAgents + 1 - i], now, w.g,
                                   w.agents[NumAgents + 1 - i])}

\* the worlds AgentController.update(now) can leave, runtimes i.. still to update
RECURSIVE ControllerUpdate(_, _, _)
ControllerUpdate(w, now, i) ==
    IF i > NumAgents THEN {w}
    ELSE UNION {
            ControllerUpdate(
                UpdatedWorld(w, i, UpdateAnimator(w.animators[i], now, w.g, w.agents[i], draw)),
                now, i + 1)
            : draw \in UpdateDraws(w.animators[i], now, w.g, w.agents[i])}

GetDrawables == [i \in Agents |-> [px |-> animators[i].pos_px, mode |-> agents[i].mode]]

-----------------------------------------------------------------------------
(* Construction: HexFold._ensure_layout_and_sim *)

TotalTraffic(g) ==
    LET RECURSIVE Sum(_)
        Sum(S) == IF S = {} THEN 0
                  ELSE LET e == CHOOSE x \in S : TRUE IN g.edge_state[e].traffic + Sum(S \ {e})
    IN  Sum(DOMAIN g.edge_state)

Init ==
    /\ layout \in Layouts
    /\ adjacency = BuildAdjacency(layout)
    /\ edge_state = NewGraph(layout, adjacency).edge_state
    /\ vertex_state = NewGraph(layout, adjacency).vertex_state
    /\ frontier_count = NewGraph(layout, adjacency).frontier_count
    /\ active_edges = NewGraph(layout, adjacency).active_edges
    /\ agents = [i \in Agents |-> NewAgent]
    /\ animators = [i \in Agents |-> NewAnimator]
    /\ now_ms = 0
    /\ last = [i \in Agents |-> NoInfo]
    /\ moved_at_ms = [i \in Agents |-> -1]
    /\ moves_made = 0

-----------------------------------------------------------------------------
(* The Stepper driven directly: any agent, in any order *)

StepAgent(i) ==
    /\ TotalTraffic(Graph) < MaxMoves
    /\ \E draw \in Draws(Graph, agents[i]) :
          LET result == Step(Graph, agents[i], draw)
          IN  /\ edge_state' = result.g.edge_state
              /\ vertex_state' = result.g.vertex_state
              /\ frontier_count' = result.g.frontier_count
              /\ active_edges' = result.g.active_edges
              /\ agents' = [agents EXCEPT ![i] = result.agent]
              /\ last' = [j \in Agents |-> IF j = i THEN result.info ELSE NoInfo]
              /\ moved_at_ms' = [j \in Agents |->
                    IF j = i /\ <<result.agent.prev, result.agent.curr>>
                                   # <<agents[i].prev, agents[i].curr>>
                    THEN now_ms ELSE moved_at_ms[j]]
              /\ moves_made' = IF <<result.agent.prev, result.agent.curr>>
                                     # <<agents[i].prev, agents[i].curr>>
                               THEN moves_made + 1 ELSE moves_made
    /\ UNCHANGED <<layout, adjacency, animators, now_ms>>

Next == \E i \in Agents : StepAgent(i)

Spec == Init /\ [][Next]_vars

-----------------------------------------------------------------------------
(* The draw loop: one AgentController.update per frame *)

AllStopped == \A i \in Agents : animators[i].phase = "STOPPED"

\* the time a run whose frontier is already empty is given to finish its moves
\* and dwells: one traversal, one dwell, and the frames they are noticed in
SettleMs == EdgeTraverseMs + TravelVertexDwellMs + 4 * FrameMs

\* the clock stops at MaxNowMs, or SettleMs later when the frontier is empty and
\* some animator has still to stop
ClockMayReach(now) ==
    \/ now <= MaxNowMs
    \/ FrontierIsEmpty(Graph) /\ ~AllStopped /\ now <= MaxNowMs + SettleMs

Tick(delta) ==
    /\ ClockMayReach(now_ms + delta)
    /\ now_ms' = now_ms + delta
    /\ \E w \in ControllerUpdate([World EXCEPT !.last = [i \in Agents |-> NoInfo]],
                                 now_ms + delta, 1) :
          /\ edge_state' = w.g.edge_state
          /\ vertex_state' = w.g.vertex_state
          /\ frontier_count' = w.g.frontier_count
          /\ active_edges' = w.g.active_edges
          /\ agents' = w.agents
          /\ animators' = w.animators
          /\ last' = w.last
          /\ moved_at_ms' = [i \in Agents |->
                IF <<w.agents[i].prev, w.agents[i].curr>> # <<agents[i].prev, agents[i].curr>>
                THEN now_ms + delta ELSE moved_at_ms[i]]
          /\ moves_made' = moves_made + Cardinality({i \in Agents :
                <<w.agents[i].prev, w.agents[i].curr>> # <<agents[i].prev, agents[i].curr>>})
    /\ UNCHANGED <<layout, adjacency>>

SameFrameTick == Tick(0)

AdvancingTick == \E delta \in FrameDeltas \ {0} : Tick(delta)

NextAnim == SameFrameTick \/ AdvancingTick

SpecAnim == Init /\ [][NextAnim]_vars

\* millis() moving on to a later frame
ClockAdvances ==
    \E delta \in FrameDeltas \ {0} :
        /\ ClockMayReach(now_ms + delta)
        /\ now_ms' = now_ms + delta

\* the draw loop keeps running and millis() keeps growing: the steps of NextAnim
\* that change now_ms are those of AdvancingTick, which is enabled exactly when
\* ClockAdvances is
SpecLive == SpecAnim /\ WF_now_ms(ClockAdvances)

-----------------------------------------------------------------------------
(* Properties of the graph state *)

Vertices == DOMAIN vertex_state
Edges == DOMAIN edge_state

FrontierVertices(g) == {v \in DOMAIN g.vertex_state : g.vertex_state[v].open_incident_edges > 0}

\* C1: in every reachable state is_frontier_vertex(v) is open_incident_edges(v) > 0,
\* frontier_count is the number of vertices with open_incident_edges > 0, and
\* frontier_is_empty() holds exactly when no vertex is a frontier vertex.
C1_FrontierCountConsistent ==
    /\ \A v \in Vertices :
          IsFrontierVertex(Graph, v) <=> vertex_state[v].open_incident_edges > 0
    /\ frontier_count = Cardinality(FrontierVertices(Graph))
    /\ FrontierIsEmpty(Graph) <=> ~(\E v \in Vertices : IsFrontierVertex(Graph, v))

\* some vertex has left the frontier while others are still in it
C1_Witness ==
    /\ \E v \in Vertices : Len(adjacency[v]) > 0 /\ vertex_state[v].open_incident_edges = 0
    /\ \E v \in Vertices : vertex_state[v].open_incident_edges > 0

\* C2: ensure_edge_exists is idempotent: on every static edge, in either
\* direction, a second call leaves the graph as the first call left it, the edge
\* exists, and over both calls each endpoint's open_incident_edges and version
\* change by at most 1 and frontier_count drops by the endpoints that closed.
C2_EnsureEdgeExistsIdempotent ==
    \A e \in Edges : \A ab \in {<<e[1], e[2]>>, <<e[2], e[1]>>} :
        LET once == EnsureEdgeExists(Graph, ab[1], ab[2])
            twice == EnsureEdgeExists(once, ab[1], ab[2])
            closed == {v \in {ab[1], ab[2]} :
                          IsFrontierVertex(Graph, v) /\ ~IsFrontierVertex(twice, v)}
        IN  /\ twice = once
            /\ twice.edge_state[e].exists
            /\ \A v \in {ab[1], ab[2]} :
                  /\ twice.vertex_state[v].open_incident_edges
                        >= vertex_state[v].open_incident_edges - 1
                  /\ twice.vertex_state[v].version <= vertex_state[v].version + 1
            /\ twice.frontier_count = frontier_count - Cardinality(closed)

\* an edge that exists and an edge that does not: both calls are exercised
C2_Witness ==
    /\ \E e \in Edges : edge_state[e].exists
    /\ \E e \in Edges : ~edge_state[e].exists /\ vertex_state[e[1]].open_incident_edges = 1

\* C3: version(v) goes up by exactly 1 in the transition in which
\* open_incident_edges(v) first reaches 0 and is changed by no other transition;
\* so version(v) is 0 or 1, and 1 exactly when v has neighbours and
\* open_incident_edges(v) = 0.
C3_VersionIsClosedFlag ==
    \A v \in Vertices :
        /\ vertex_state[v].version \in {0, 1}
        /\ vertex_state[v].version = 1
              <=> (Len(adjacency[v]) > 0 /\ vertex_state[v].open_incident_edges = 0)

C3_VersionBumpedOnClose ==
    \A v \in Vertices :
        vertex_state'[v].version =
            IF vertex_state[v].open_incident_edges > 0
               /\ vertex_state'[v].open_incident_edges = 0
            THEN vertex_state[v].version + 1
            ELSE vertex_state[v].version

C3_VersionBumpedExactlyOnce == []C3_VersionIsClosedFlag /\ [][C3_VersionBumpedOnClose]_vars

C3_Witness ==
    \E v \in Vertices :
        /\ vertex_state[v].version = 1
        /\ vertex_state[v].open_incident_edges = 0
        /\ vertex_state[v].visit_count > 1

-----------------------------------------------------------------------------
(* Properties of the Stepper *)

\* the agent whose Stepper invocation the transition is
Invoked(i) == last'[i].kind # "none"

ExistsEdge(g, key_a, key_b) ==
    /\ EdgeKey(key_a, key_b) \in DOMAIN g.edge_state
    /\ g.edge_state[EdgeKey(key_a, key_b)].exists

\* the vertices within k hops of the set S over edges that exist
RECURSIVE WithinHops(_, _, _)
WithinHops(g, S, k) ==
    IF k = 0 THEN S
    ELSE LET near == WithinHops(g, S, k - 1)
         IN  near \cup {v \in DOMAIN g.vertex_state : \E u \in near : ExistsEdge(g, u, v)}

VertexA == <<-1, 0>>
VertexB == <<-1, -1>>
VertexC == <<0, -1>>
VertexD == <<1, 0>>
VertexE == <<1, 1>>

\* the state of the chain in which A-B, B-C and C-D exist and D is the only
\* frontier vertex that existing edges reach
ChainABCD ==
    /\ layout.name = "Chain5"
    /\ ExistsEdge(Graph, VertexA, VertexB)
    /\ ExistsEdge(Graph, VertexB, VertexC)
    /\ ExistsEdge(Graph, VertexC, VertexD)
    /\ ~ExistsEdge(Graph, VertexD, VertexE)

\* C4: a plan made from a curr that is not a frontier vertex has a frontier
\* vertex as target, no frontier vertex is nearer to curr over existing edges,
\* and the path is a walk over existing edges of that length which excludes curr
\* and ends at the target; on the chain A-B-C-D the plan from A is target D,
\* path [B, C, D].
C4_PlanReachesNearestFrontier ==
    \A i \in Agents :
        (last[i].planning = "ok" /\ ~IsFrontierVertex(Graph, last[i].plan_start)) =>
            LET start == last[i].plan_start
                target == last[i].plan_target
                path == last[i].plan_path
                hops == Len(path)
            IN  /\ hops >= 1
                /\ IsFrontierVertex(Graph, target)
                /\ path[hops] = target
                /\ \A n \in 1..hops : path[n] # start
                /\ \A n \in 1..hops :
                      ExistsEdge(Graph, IF n = 1 THEN start ELSE path[n - 1], path[n])
                /\ \A v \in WithinHops(Graph, {start}, hops - 1) : ~IsFrontierVertex(Graph, v)
                /\ (ChainABCD /\ start = VertexA) =>
                      (target = VertexD /\ path = <<VertexB, VertexC, VertexD>>)

C4_Witness ==
    \E i \in Agents :
        /\ ChainABCD
        /\ last[i].planning = "ok"
        /\ last[i].plan_start = VertexA
        /\ last[i].plan_target = VertexD
        /\ agents[i].curr = VertexB

\* C5: a travel step of an agent whose stored travel target is no longer a
\* frontier vertex discards the stored plan and plans again by BFS from curr:
\* it hops along the new BFS path, keeps the rest of it with the new target and
\* its version, and is left without a plan where BFS reaches no frontier vertex.
C5_StaleTarget(i) ==
    /\ Invoked(i)
    /\ ~FrontierIsEmpty(Graph)
    /\ agents[i].mode = "TRAVEL"
    /\ agents[i].travel_target # None
    /\ ~IsFrontierVertex(Graph, agents[i].travel_target)

C5_Replanned(i) ==
    LET bfs == BfsToNearestFrontier(Graph, agents[i].curr)
        target == bfs[1]
        path == bfs[2]
    IN  /\ last'[i].cancelled
        /\ last'[i].planning # "none"
        /\ agents'[i].travel_target # agents[i].travel_target
        /\ IF target = None
           THEN /\ agents'[i] = ClearTravelPlan(agents[i])
                /\ last'[i].planning = "failed"
           ELSE /\ last'[i].planning = "ok"
                /\ last'[i].plan_target = target
                /\ last'[i].plan_path = path
                /\ IsFrontierVertex(Graph, target)
                /\ path # <<>> =>
                      /\ agents'[i].prev = agents[i].curr
                      /\ agents'[i].curr = Head(path)
                      /\ IF Len(path) = 1
                         THEN agents'[i].mode = "GROW" /\ agents'[i].travel_target = None
                         ELSE /\ agents'[i].mode = "TRAVEL"
                              /\ agents'[i].travel_target = target
                              /\ agents'[i].travel_target_version = vertex_state[target].version
                              /\ agents'[i].travel_path = Tail(path)

C5_SoftCancelReplans == [][\A i \in Agents : C5_StaleTarget(i) => C5_Replanned(i)]_vars

\* an agent has just dropped a stale plan, planned again and kept a new target
C5_Witness ==
    \E i \in Agents :
        /\ last[i].cancelled
        /\ last[i].planning = "ok"
        /\ agents[i].travel_target = last[i].plan_target
        /\ agents[i].travel_path # <<>>

\* C10: one Stepper invocation switches at most one edge to exists, adds exactly
\* 1 to the traffic of at most one edge and to the visit_count of at most one
\* vertex, and these are the edge between the agent's new prev and curr and its
\* new curr; an invocation that does not move the agent changes none of them.
C10_OneMutation(i) ==
    LET materialised == {e \in Edges : edge_state'[e].exists # edge_state[e].exists}
        travelled == {e \in Edges : edge_state'[e].traffic # edge_state[e].traffic}
        arrived == {v \in Vertices : vertex_state'[v].visit_count # vertex_state[v].visit_count}
        moved == <<agents'[i].prev, agents'[i].curr>> # <<agents[i].prev, agents[i].curr>>
    IN  /\ Cardinality(materialised) <= 1
        /\ Cardinality(travelled) <= 1
        /\ Cardinality(arrived) <= 1
        /\ \A e \in materialised : edge_state'[e].exists /\ e \in travelled
        /\ \A e \in travelled :
              /\ edge_state'[e].traffic = edge_state[e].traffic + 1
              /\ e = EdgeKey(agents'[i].prev, agents'[i].curr)
        /\ \A v \in arrived :
              /\ vertex_state'[v].visit_count = vertex_state[v].visit_count + 1
              /\ v = agents'[i].curr
        /\ moved <=> travelled # {}
        /\ moved <=> arrived # {}

C10_AtMostOneMutationPerStep == [][\A i \in Agents : Invoked(i) => C10_OneMutation(i)]_vars

\* an invocation has just materialised the edge it travelled
C10_Witness ==
    \E i \in Agents :
        /\ last[i].kind = "grow"
        /\ edge_state[EdgeKey(agents[i].prev, agents[i].curr)].traffic = 1
        /\ vertex_state[agents[i].curr].visit_count = 1

-----------------------------------------------------------------------------
(* Properties of the animators under the draw loop *)

\* C7: an animator that requests its next step (from IDLE, or from DWELLING
\* with now >= dwell_until) while the frontier is empty becomes STOPPED in that
\* update, keeps its position, and the Stepper is not invoked; the scheduler
\* never invokes the Stepper on an empty frontier; a STOPPED animator is left
\* as it is by every later update, and its agent is never stepped again.
C7_StopStep(i) ==
    /\ last'[i].kind # "frontier_empty"
    /\ (RequestsStep(animators[i], now_ms') /\ FrontierIsEmpty(Graph)) =>
          /\ animators'[i].phase = "STOPPED"
          /\ ~Invoked(i)
    /\ (RequestsStep(animators[i], now_ms') /\ ~Invoked(i)) =>
          /\ animators'[i] = [animators[i] EXCEPT !.phase = "STOPPED"]
          /\ agents'[i] = agents[i]
          /\ FrontierIsEmpty(Graph')
    /\ Invoked(i) => animators'[i].phase \in {"MOVING", "DWELLING"}
    /\ animators[i].phase = "STOPPED" =>
          /\ animators'[i] = animators[i]
          /\ agents'[i] = agents[i]
          /\ ~Invoked(i)

C7_StoppedOnEmptyFrontier == [][\A i \in Agents : C7_StopStep(i)]_vars

\* one animator stopped on its first update, another after its last move
C7_Witness ==
    /\ \E i \in Agents : animators[i].phase = "STOPPED" /\ agents[i].curr = None
    /\ \E i \in Agents :
          /\ animators[i].phase = "STOPPED"
          /\ agents[i].curr # None
          /\ animators[i].pos_px = layout.px[agents[i].curr]

\* C8: under a draw loop whose clock keeps growing, an empty frontier leads to
\* every animator being STOPPED.
C8_EmptyFrontierLeadsToAllStopped == (frontier_count = 0) ~> AllStopped

\* the frontier is empty while one animator is in a move and another dwells
C8_Witness ==
    /\ frontier_count = 0
    /\ \E i \in Agents : animators[i].phase = "MOVING"
    /\ \E i \in Agents : animators[i].phase = "DWELLING" /\ now_ms < animators[i].dwell_until_ms

\* C9: a MOVING animator's move lasts EdgeTraverseMs and its position is the
\* interpolation of the two pixel positions at clamp((now - start) / (end - start), 0, 1),
\* the midpoint half-way through a move that started at 0; the update that
\* reaches the end of the move puts the animator on the destination pixel in
\* DWELLING, an earlier one leaves it MOVING.
C9_MovingIsInterpolated ==
    \A i \in Agents :
        animators[i].phase = "MOVING" =>
            LET move == animators[i].move
                from_px == layout.px[move.from_key]
                to_px == layout.px[move.to_key]
                duration == move.end_ms - move.start_ms
                elapsed == Min(duration, Max(0, now_ms - move.start_ms))
            IN  /\ move.end_ms = move.start_ms + EdgeTraverseMs
                /\ now_ms < move.end_ms
                /\ \A k \in {1, 2} :
                      /\ animators[i].pos_px[k] * duration
                            = from_px[k] * duration + (to_px[k] - from_px[k]) * elapsed
                      /\ (move.start_ms = 0 /\ 2 * now_ms = EdgeTraverseMs) =>
                            2 * animators[i].pos_px[k] = from_px[k] + to_px[k]

C9_MoveStep(i) ==
    animators[i].phase = "MOVING" =>
        IF now_ms' >= animators[i].move.end_ms
        THEN /\ animators'[i].phase = "DWELLING"
             /\ animators'[i].pos_px = layout.px[animators[i].move.to_key]
        ELSE /\ animators'[i].phase = "MOVING"
             /\ animators'[i].move = animators[i].move

C9_MovingPositionIsLerp ==
    []C9_MovingIsInterpolated /\ [][\A i \in Agents : C9_MoveStep(i)]_vars

\* half-way through a move that started at 0, away from both of its ends
C9_Witness ==
    \E i \in Agents :
        /\ animators[i].phase = "MOVING"
        /\ animators[i].move.start_ms = 0
        /\ 2 * now_ms = EdgeTraverseMs
        /\ animators[i].pos_px # layout.px[animators[i].move.from_key]
        /\ animators[i].pos_px # layout.px[animators[i].move.to_key]

-----------------------------------------------------------------------------
(* Properties of one scheduler tick *)

\* the agents whose (prev, curr) the transition changes
Movers == {i \in Agents : <<agents'[i].prev, agents'[i].curr>> # <<agents[i].prev, agents[i].curr>>}

\* the edges the transition makes exist
NewEdges == {e \in Edges : edge_state'[e].exists /\ ~edge_state[e].exists}

\* C11: in one tick the runtimes are updated in registration order against one
\* now: a runtime that requests a step is passed over only when the frontier
\* was empty or an earlier runtime was stepped in this tick, every move started
\* in the tick starts at the tick's now, only stepped agents change, and the
\* graph changes by at most one traversal and one new edge per stepped agent,
\* so by at most NumAgents of each.
C11_TickStep ==
    /\ \A i \in Agents :
          /\ (RequestsStep(animators[i], now_ms') /\ ~Invoked(i)) =>
                (FrontierIsEmpty(Graph) \/ \E j \in 1..(i - 1) : Invoked(j))
          /\ Invoked(i) => RequestsStep(animators[i], now_ms')
          /\ (Invoked(i) /\ animators'[i].phase = "MOVING") =>
                animators'[i].move.start_ms = now_ms'
          /\ agents'[i] # agents[i] => Invoked(i)
    /\ Movers \subseteq {i \in Agents : Invoked(i)}
    /\ TotalTraffic(Graph') - TotalTraffic(Graph) = Cardinality(Movers)
    /\ Cardinality(NewEdges) <= Cardinality(Movers)
    /\ Cardinality(Movers) <= NumAgents

C11_OneStepPerAgentPerTick == [][C11_TickStep]_vars

\* a tick has stepped the first agent, which closed the frontier, and passed
\* over the second
C11_Witness ==
    /\ last[1].kind = "init"
    /\ last[2].kind = "none"
    /\ animators[1].phase = "MOVING"
    /\ animators[2].phase = "STOPPED"
    /\ agents[2].curr = None

-----------------------------------------------------------------------------
(* Properties of the Stepper's branches *)

\* C12: a Stepper invocation on an empty frontier leaves the graph and the
\* agent, initialized or not, as they were and calls the rng for nothing.
C12_NoOpStep(i) ==
    (Invoked(i) /\ FrontierIsEmpty(Graph)) =>
        /\ last'[i].kind = "frontier_empty"
        /\ ~last'[i].drew
        /\ Graph' = Graph
        /\ agents' = agents

C12_EmptyFrontierStepIsNoOp == [][\A i \in Agents : C12_NoOpStep(i)]_vars

\* the frontier is empty, and the Stepper has been invoked on it for an agent
\* that is not initialized while another agent is
C12_Witness ==
    /\ FrontierIsEmpty(Graph)
    /\ \E i \in Agents : last[i].kind = "frontier_empty" /\ agents[i].curr = None
    /\ \E i \in Agents : agents[i].curr # None

\* the frontier vertices that can be reached from v over edges that exist
ReachableFrontier(g, v) ==
    WithinHops(g, {v}, Cardinality(DOMAIN g.vertex_state)) \cap FrontierVertices(g)

\* agent i's (prev, curr) is changed by the transition
Moved(i) == <<agents'[i].prev, agents'[i].curr>> # <<agents[i].prev, agents[i].curr>>

\* the invocation found growth blocked and went on to the travel step, which
\* planned from a cleared plan
C13_BlockedTravelStep(i) ==
    /\ last'[i].kind = "travel"
    /\ last'[i].planning # "none"
    /\ ~last'[i].cancelled
    /\ last'[i].planning = "ok" => last'[i].plan_start = agents[i].curr
    /\ agents'[i].mode = "GROW" => agents'[i].travel_target = None

C14_FailedPlanStep(i) ==
    /\ (/\ last'[i].kind = "travel"
        /\ last'[i].planning # "none"
        /\ ReachableFrontier(Graph, agents[i].curr) = {}) =>
          /\ last'[i].planning = "failed"
          /\ Graph' = Graph
          /\ ~Moved(i)
          /\ agents'[i].travel_target = None
          /\ agents'[i].travel_target_version = -1
          /\ agents'[i].travel_path = <<>>
          /\ agents'[i].mode = "TRAVEL"
    /\ (/\ ~FrontierIsEmpty(Graph)
        /\ agents[i].mode = "TRAVEL"
        /\ agents[i].travel_target = None) =>
          /\ last'[i].kind = "travel"
          /\ last'[i].planning # "none"

C14_FailedPlanningIsRetried == [][\A i \in Agents : Invoked(i) => C14_FailedPlanStep(i)]_vars

\* planning has failed again for an agent that was already in TRAVEL mode,
\* while the frontier is not empty
C14_Witness ==
    \E i \in Agents :
        /\ last[i].planning = "failed"
        /\ ~last[i].blocked
        /\ agents[i].mode = "TRAVEL"
        /\ ~FrontierIsEmpty(Graph)

-----------------------------------------------------------------------------
(* Properties of the animator's retry dwell *)

\* an update whose Stepper invocation leaves (prev, curr) as it was puts the
\* animator in DWELLING until now + 1, on the pixel of curr, and no stepped
\* animator is STOPPED
C15_UnchangedStepDwells(i) ==
    /\ (Invoked(i) /\ ~Moved(i)) =>
          /\ animators'[i].phase = "DWELLING"
          /\ animators'[i].dwell_until_ms = now_ms' + 1
          /\ animators'[i].pos_px = layout.px[agents'[i].curr]
          /\ animators'[i].move = None
    /\ Invoked(i) => animators'[i].phase # "STOPPED"
    /\ (animators[i].phase = "DWELLING" /\ now_ms' < animators[i].dwell_until_ms) =>
          (animators'[i] = animators[i] /\ ~Invoked(i))

\* this update is at or after the dwell_until of a DWELLING animator
C15_DwellOver(i) ==
    /\ animators[i].phase = "DWELLING"
    /\ animators[i].dwell_until_ms <= now_ms'

\* the previous update stepped the agent, the step left it in place, and this
\* update is the first at or after the dwell_until that update set
C15_RetryDue(i) ==
    /\ last[i].kind # "none"
    /\ animators[i].dwell_until_ms = now_ms + 1
    /\ C15_DwellOver(i)

-----------------------------------------------------------------------------
(* C16 *)

\* counters that only count down are never negative
C16_CountersNonNegative ==
    /\ frontier_count >= 0
    /\ \A v \in Vertices : vertex_state[v].open_incident_edges >= 0

\* one step never takes an edge back, never lowers a traffic, visit_count or
\* version, and never raises open_incident_edges or frontier_count
C16_MonotoneStep ==
    /\ \A e \in Edges :
          /\ edge_state[e].exists => edge_state'[e].exists
          /\ edge_state'[e].traffic >= edge_state[e].traffic
    /\ \A v \in Vertices :
          /\ vertex_state'[v].visit_count >= vertex_state[v].visit_count
          /\ vertex_state'[v].version >= vertex_state[v].version
          /\ vertex_state'[v].open_incident_edges <= vertex_state[v].open_incident_edges
    /\ frontier_count' <= frontier_count

\* C16: across any sequence of Stepper invocations by any number of agents an
\* edge's exists never goes from true to false; traffic, visit_count and
\* version never decrease; open_incident_edges and frontier_count never
\* increase and never become negative.
C16_StateIsMonotone == []C16_CountersNonNegative /\ [][C16_MonotoneStep]_vars

\* both agents have stepped, an edge has been traversed more than once, a
\* vertex has been visited more than once, and a vertex has left the frontier
C16_Witness ==
    /\ \A i \in Agents : agents[i].curr # None
    /\ \E e \in Edges : edge_state[e].exists /\ edge_state[e].traffic >= 2
    /\ \E v \in Vertices : vertex_state[v].visit_count >= 2
    /\ \E v \in Vertices :
          /\ vertex_state[v].version = 1
          /\ vertex_state[v].open_incident_edges = 0
    /\ \E v \in Vertices : vertex_state[v].open_incident_edges > 0

-----------------------------------------------------------------------------
(* C17 *)

\* the static edges as the layout lists them, each as a pair of endpoints
StaticPairs == {<<layout.edges[n][1], layout.edges[n][2]>> : n \in 1..Len(layout.edges)}

\* both orders of a static edge's endpoints give one key, one state object and
\* one effect of ensure_edge_exists, and the edge has no second state under
\* the reversed key
C17_OneStatePerEdge ==
    \A ab \in StaticPairs :
        LET a == ab[1]
            b == ab[2]
        IN  /\ EdgeKey(a, b) = EdgeKey(b, a)
            /\ EdgeKey(a, b) \in Edges
            /\ a # b => ~({<<a, b>>, <<b, a>>} \subseteq Edges)
            /\ EdgeState(Graph, a, b) = EdgeState(Graph, b, a)
            /\ EnsureEdgeExists(Graph, a, b) = EnsureEdgeExists(Graph, b, a)

\* a traversal from a to b adds one to the counter read in the direction b to
\* a, on an edge whose flag is set, and to no other counter
C17_TraversalStep ==
    \A i \in Agents :
        Moved(i) =>
            LET a == agents'[i].prev
                b == agents'[i].curr
            IN  /\ EdgeState(Graph', b, a).exists
                /\ EdgeState(Graph', b, a).traffic = EdgeState(Graph, a, b).traffic + 1
                /\ \A e \in Edges \ {EdgeKey(a, b)} :
                      edge_state'[e].traffic = edge_state[e].traffic

\* C17: edge state is identified by the unordered pair: for every static edge
\* edge_state(a, b) and edge_state(b, a) are the same state and
\* ensure_edge_exists(a, b) has the same effect as ensure_edge_exists(b, a), so
\* traversals in both directions accumulate on one traffic counter and one
\* exists flag.
C17_EdgeStateIsUnordered == []C17_OneStatePerEdge /\ [][C17_TraversalStep]_vars

\* two agents have traversed one edge in opposite directions and its single
\* counter has both traversals
C17_Witness ==
    \E i, j \in Agents :
        /\ agents[i].curr # None
        /\ agents[j].prev = agents[i].curr
        /\ agents[j].curr = agents[i].prev
        /\ EdgeState(Graph, agents[i].prev, agents[i].curr).exists
        /\ EdgeState(Graph, agents[j].prev, agents[j].curr).traffic = 2

-----------------------------------------------------------------------------
(* C18 *)

\* C18: in every reachable state the edges iter_active_edges hands to the
\* renderer are exactly the static edges whose exists flag is true.
C18_ActiveEdgesAreExistingEdges ==
    /\ IterActiveEdges(Graph) = {e \in Edges : edge_state[e].exists}
    /\ IterActiveEdges(Graph) \subseteq EdgeKeys(layout)

\* some edges have been materialised and are exposed, others are still open
C18_Witness ==
    /\ Cardinality(IterActiveEdges(Graph)) >= 2
    /\ \E e \in Edges : ~edge_state[e].exists
    /\ \E e \in IterActiveEdges(Graph) : edge_state[e].traffic >= 2

-----------------------------------------------------------------------------
(* C19 *)

\* the invocation of agent i is a travel step that had a plan to follow: the
\* stored one, or the one BFS produced in this invocation
C19_TravelStepWithPlan(i) ==
    /\ Invoked(i)
    /\ last'[i].kind = "travel"
    /\ last'[i].planning # "failed"

\* the path of that plan before the hop
C19_PlanPath(i) ==
    IF last'[i].planning = "ok" THEN last'[i].plan_path ELSE agents[i].travel_path

\* exactly one hop along path: (prev, curr) becomes (old curr, first vertex),
\* the vertex is removed from the path, the traversed edge's traffic and the
\* new curr's visit_count go up by one, and nothing else in the graph changes
C19_OneHop(i, path) ==
    LET next_vertex == path[1]
        key == EdgeKey(agents[i].curr, next_vertex)
    IN  /\ agents'[i].prev = agents[i].curr
        /\ agents'[i].curr = next_vertex
        /\ agents'[i].travel_path = Tail(path)
        /\ key \in Edges
        /\ edge_state' = [edge_state EXCEPT ![key].traffic = @ + 1]
        /\ vertex_state' = [vertex_state EXCEPT ![next_vertex].visit_count = @ + 1]
        /\ frontier_count' = frontier_count
        /\ active_edges' = active_edges

C19_EmptyPlanStep(i) ==
    /\ last'[i].planning = "ok"
    /\ last'[i].plan_target = agents[i].curr
    /\ IsFrontierVertex(Graph, agents[i].curr)
    /\ Graph' = Graph
    /\ agents'[i] = ClearTravelPlan([agents[i] EXCEPT !.mode = "GROW"])

-----------------------------------------------------------------------------
(* C20 *)

\* the invocation of agent i took a travel hop
C20_TravelHop(i) ==
    /\ Invoked(i)
    /\ last'[i].kind = "travel"
    /\ Moved(i)

\* the hop went over a static edge whose exists flag was already true when
\* the invocation began, the invocation materialised no edge, and the traffic
\* it added went to that edge
C20_HopOverExistingEdge(i) ==
    LET key == EdgeKey(agents[i].curr, agents'[i].curr)
    IN  /\ agents'[i].prev = agents[i].curr
        /\ key \in Edges
        /\ edge_state[key].exists
        /\ edge_state[key].traffic >= 1
        /\ NewEdges = {}
        /\ \A e \in Edges :
              edge_state'[e].traffic # edge_state[e].traffic => e = key /\ edge_state[e].exists

\* every plan an agent carries from one invocation to the next runs from its
\* curr over edges that exist
C20_StoredPathExists ==
    \A i \in Agents :
        LET walk == <<agents[i].curr>> \o agents[i].travel_path
        IN  \A n \in 1..Len(agents[i].travel_path) :
                /\ EdgeKey(walk[n], walk[n + 1]) \in Edges
                /\ edge_state[EdgeKey(walk[n], walk[n + 1])].exists

\* C20: every edge traversed by a travel hop already has exists = true at the
\* moment of traversal, with any number of agents and also for hops taken from
\* a plan computed in an earlier invocation; a travel hop never increments the
\* traffic of a non-existing edge.
C20_TravelHopsOverExistingEdges ==
    /\ []C20_StoredPathExists
    /\ [][\A i \in Agents : C20_TravelHop(i) => C20_HopOverExistingEdge(i)]_vars

\* an agent has taken the last hop of a plan computed in an earlier
\* invocation, with another agent on the graph as well, and has arrived
C20_Witness ==
    \E i \in Agents :
        /\ last[i].kind = "travel"
        /\ last[i].planning = "none"
        /\ last[i].arrived
        /\ agents[i].mode = "GROW"
        /\ edge_state[EdgeKey(agents[i].prev, agents[i].curr)].traffic >= 2
        /\ \E j \in Agents \ {i} : agents[j].curr # None

-----------------------------------------------------------------------------
(* C21 *)

\* neighbors(curr) minus prev, in adjacency order
ForwardCandidates(i) ==
    SelectSeq(Neighbors(agents[i].curr), LAMBDA ns : ns # agents[i].prev)

\* agent i is initialized, in GROW mode, and the frontier is not empty: its
\* next invocation attempts a growth move
C21_WillGrow(i) ==
    /\ agents[i].prev # None
    /\ agents[i].curr # None
    /\ agents[i].mode = "GROW"
    /\ ~FrontierIsEmpty(Graph)

C21_IsNew(i, v) == ~EdgeState(Graph, agents[i].curr, v).exists

C21_Blocked(i) == last'[i].kind = "travel" /\ last'[i].blocked

C21_MovedTo(i, S) ==
    /\ last'[i].kind = "grow"
    /\ agents'[i].prev = agents[i].curr
    /\ agents'[i].curr \in S

\* the vertices the invocation of agent i can leave it on, over every value
\* the random generator can give
C21_Outcomes(i) == {Step(Graph, agents[i], d).agent.curr : d \in Draws(Graph, agents[i])}

\* the claim read for exactly two forward candidates
C21_TwoCandidateStep(i) ==
    LET c == ForwardCandidates(i)
    IN  /\ C21_Blocked(i) <=>
              \/ Len(c) = 0
              \/ Len(c) = 2 /\ ~C21_IsNew(i, c[1]) /\ ~C21_IsNew(i, c[2])
        /\ Len(c) = 1 => C21_MovedTo(i, {c[1]})
        /\ (Len(c) = 2 /\ (C21_IsNew(i, c[1]) \/ C21_IsNew(i, c[2]))) =>
              C21_MovedTo(i, {c[1], c[2]})

C21_FirstTwoCandidatesStep(i) ==
    LET c == ForwardCandidates(i)
    IN  /\ C21_Blocked(i) <=>
              \/ Len(c) = 0
              \/ Len(c) >= 2 /\ ~C21_IsNew(i, c[1]) /\ ~C21_IsNew(i, c[2])
        /\ Len(c) = 1 => C21_MovedTo(i, {c[1]})
        /\ (Len(c) >= 2 /\ (C21_IsNew(i, c[1]) \/ C21_IsNew(i, c[2]))) =>
              C21_MovedTo(i, {c[1], c[2]})

\* both of the first two candidates are possible outcomes when exactly one of
\* them is new
C21_BothOutcomesPossible ==
    \A i \in Agents :
        LET c == ForwardCandidates(i)
        IN  (C21_WillGrow(i) /\ Len(c) >= 2 /\ C21_IsNew(i, c[1]) # C21_IsNew(i, c[2])) =>
                C21_Outcomes(i) = {c[1], c[2]}

-----------------------------------------------------------------------------
(* C22 *)

\* the vertices of a sequence
Range(seq) == {seq[n] : n \in 1..Len(seq)}

\* the growth move of agent i went from its old curr to a static neighbour
\* other than its old prev, over an edge that exists afterwards and has one
\* more traversal, to a vertex with one more visit, and left the mode GROW
C22_GrowthMove(i) ==
    LET next == agents'[i].curr
        key == EdgeKey(agents[i].curr, next)
    IN  /\ agents'[i].prev = agents[i].curr
        /\ next \in Range(Neighbors(agents[i].curr))
        /\ next # agents[i].prev
        /\ key \in Edges
        /\ edge_state'[key].exists
        /\ edge_state'[key].traffic = edge_state[key].traffic + 1
        /\ vertex_state'[next].visit_count = vertex_state[next].visit_count + 1
        /\ agents[i].mode = "GROW"
        /\ agents'[i].mode = "GROW"

\* C22: a successful growth move to next leaves the edge (curr, next) with
\* exists = true, adds exactly 1 to its traffic and to next's visit_count, sets
\* (prev, curr) to (old curr, next), keeps the mode GROW, and next is a static
\* neighbour of the old curr different from the old prev.
C22_GrowthMoveEffects ==
    [][\A i \in Agents : last'[i].kind = "grow" => C22_GrowthMove(i)]_vars

\* an agent has just grown over an edge nobody had traversed before, to a
\* vertex nobody had visited before
C22_Witness ==
    \E i \in Agents :
        /\ last[i].kind = "grow"
        /\ EdgeState(Graph, agents[i].prev, agents[i].curr).exists
        /\ EdgeState(Graph, agents[i].prev, agents[i].curr).traffic = 1
        /\ vertex_state[agents[i].curr].visit_count = 1
        /\ agents[i].mode = "GROW"

-----------------------------------------------------------------------------
(* C23 *)

\* the invocation of agent i placed it on a directed static edge (a, b): b has
\* a as a neighbour, the edge exists afterwards with one more traversal, b has
\* one more visit and no other vertex has, the agent is at prev = a, curr = b
\* in GROW mode with an empty travel plan, and nothing else was traversed
C23_Initialized(i) ==
    LET a == agents'[i].prev
        b == agents'[i].curr
        key == EdgeKey(a, b)
    IN  /\ last'[i].kind = "init"
        /\ b \in Vertices
        /\ a \in Range(Neighbors(b))
        /\ key \in Edges
        /\ edge_state' = [edge_state EXCEPT ![key] = [exists |-> TRUE, traffic |-> @.traffic + 1]]
        /\ vertex_state'[b].visit_count = vertex_state[b].visit_count + 1
        /\ \A v \in Vertices \ {b} : vertex_state'[v].visit_count = vertex_state[v].visit_count
        /\ agents'[i] = [prev |-> a, curr |-> b, mode |-> "GROW", travel_target |-> None,
                         travel_target_version |-> -1, travel_path |-> <<>>]

\* C23: the first Stepper invocation for an uninitialized agent on a graph
\* with non-empty frontier picks a directed start edge (a, b) that is a static
\* edge, makes it exist, adds 1 to its traffic and to visit_count(b) and
\* nothing to visit_count(a), sets prev = a, curr = b and mode GROW with an
\* empty travel plan, and makes no growth or travel move in that invocation.
C23_FirstInvocationInitializes ==
    [][\A i \in Agents :
          (Invoked(i) /\ (agents[i].prev = None \/ agents[i].curr = None)
                      /\ ~FrontierIsEmpty(Graph)) => C23_Initialized(i)]_vars

\* an agent has just been initialized on an edge the other agent had already
\* materialised, at a vertex whose neighbour behind it was never visited
C23_Witness ==
    \E i \in Agents :
        /\ last[i].kind = "init"
        /\ EdgeState(Graph, agents[i].prev, agents[i].curr).traffic >= 2
        /\ vertex_state[agents[i].prev].visit_count = 0
        /\ vertex_state[agents[i].curr].visit_count >= 1

-----------------------------------------------------------------------------
(* C24 *)

\* the target of the plan the travel step of agent i followed
C24_PlanTarget(i) ==
    IF last'[i].planning = "ok" THEN last'[i].plan_target ELSE agents[i].travel_target

\* what is left of that plan's path after the hop
C24_PathLeft(i) ==
    IF Len(C19_PlanPath(i)) > 0 THEN Tail(C19_PlanPath(i)) ELSE <<>>

C24_Arrives(i) == agents'[i].curr = C24_PlanTarget(i) /\ C24_PathLeft(i) = <<>>

\* a travel step ends in GROW exactly when it arrives, and then with the plan
\* cleared; otherwise it ends in TRAVEL with the plan's target and the rest of
\* its path; a failed planning attempt ends in TRAVEL
C24_TravelStep(i) ==
    IF last'[i].planning = "failed"
    THEN agents'[i].mode = "TRAVEL"
    ELSE /\ agents'[i].mode = "GROW" <=> C24_Arrives(i)
         /\ C24_Arrives(i) =>
               /\ agents'[i].travel_target = None
               /\ agents'[i].travel_target_version = -1
               /\ agents'[i].travel_path = <<>>
         /\ ~C24_Arrives(i) =>
               /\ agents'[i].mode = "TRAVEL"
               /\ agents'[i].travel_target = C24_PlanTarget(i)
               /\ agents'[i].travel_path = C24_PathLeft(i)
               /\ agents'[i].travel_path # <<>>
               /\ agents'[i].curr # C24_PlanTarget(i)

\* C24: an agent leaves TRAVEL mode only by arriving: the mode changes from
\* TRAVEL to GROW exactly in a travel step after which curr equals the travel
\* target and the path is empty, and that step clears target, version stamp
\* and path; a travel hop that leaves the path non-empty keeps the mode TRAVEL
\* and the target.
C24_LeavesTravelOnlyByArriving ==
    [][\A i \in Agents :
          /\ last'[i].kind = "travel" => C24_TravelStep(i)
          /\ (agents[i].mode = "TRAVEL" /\ agents'[i].mode # "TRAVEL") =>
                /\ last'[i].kind = "travel"
                /\ last'[i].planning # "failed"
                /\ C24_Arrives(i)]_vars

\* an agent that was in TRAVEL mode when its invocation began has taken the
\* last hop of its plan and is back in GROW with the plan cleared
C24_Witness ==
    \E i \in Agents :
        /\ last[i].kind = "travel"
        /\ ~last[i].blocked
        /\ last[i].planning = "none"
        /\ agents[i].mode = "GROW"
        /\ agents[i].travel_target = None
        /\ IsFrontierVertex(Graph, agents[i].curr)

-----------------------------------------------------------------------------
(* C25 *)

\* exists flags, open_incident_edges, versions, frontier_count and the active
\* set are as they were
C25_FrontierStateUnchanged ==
    /\ \A e \in Edges : edge_state'[e].exists = edge_state[e].exists
    /\ \A v \in Vertices :
          /\ vertex_state'[v].open_incident_edges = vertex_state[v].open_incident_edges
          /\ vertex_state'[v].version = vertex_state[v].version
    /\ frontier_count' = frontier_count
    /\ active_edges' = active_edges

\* the invocation of agent i called ensure_edge_exists on an edge that did not
\* exist: an initialization or a growth move over a new edge
C25_MaterialisesEdge(i) ==
    /\ last'[i].kind \in {"init", "grow"}
    /\ ~EdgeState(Graph, agents'[i].prev, agents'[i].curr).exists

\* frontier state changes in a step only at the endpoints of the one edge the
\* step materialised
C25_FrameStep ==
    /\ (\A i \in Agents : ~C25_MaterialisesEdge(i)) => C25_FrontierStateUnchanged
    /\ \A i \in Agents :
          C25_MaterialisesEdge(i) =>
              /\ NewEdges = {EdgeKey(agents'[i].prev, agents'[i].curr)}
              /\ \A v \in Vertices \ {agents'[i].prev, agents'[i].curr} :
                    /\ vertex_state'[v].open_incident_edges = vertex_state[v].open_incident_edges
                    /\ vertex_state'[v].version = vertex_state[v].version
    /\ \A i \in Agents :
          (\/ last'[i].kind = "travel"
           \/ last'[i].kind = "frontier_empty"
           \/ last'[i].kind = "grow" /\ EdgeState(Graph, agents'[i].prev, agents'[i].curr).exists)
              => C25_FrontierStateUnchanged

\* C25: only ensure_edge_exists on a previously non-existing edge changes
\* frontier state: a travel hop, a growth move along an existing edge, a failed
\* planning attempt and a soft-cancel leave every exists flag, every
\* open_incident_edges and version, and frontier_count unchanged.
C25_OnlyNewEdgesChangeFrontier == [][C25_FrameStep]_vars

\* an agent has just dropped a stale plan, planned again and hopped, all while
\* the frontier is still open
C25_Witness ==
    \E i \in Agents :
        /\ last[i].kind = "travel"
        /\ last[i].cancelled
        /\ last[i].planning = "ok"
        /\ Len(last[i].plan_path) > 0
        /\ frontier_count > 0

-----------------------------------------------------------------------------
(* C26 *)

\* agent j carries a plan whose target has left the frontier since the plan
\* was made
C26_StalePlan(j) ==
    /\ agents[j].travel_target # None
    /\ agents[j].travel_path # <<>>
    /\ vertex_state[agents[j].travel_target].version # agents[j].travel_target_version

\* C26: cancellation is lazy and agents own only their own state: an
\* invocation for one agent never changes another agent's prev, curr, mode,
\* travel_target, travel_target_version or travel_path; when agent i closes
\* the frontier status of agent j's travel target, j's stored target and path
\* stay as they were until j's own next travel step.
C26_AgentsOwnTheirState ==
    [][\A j \in Agents : ~Invoked(j) => agents'[j] = agents[j]]_vars

\* the other agent has just materialised an edge at the target of agent j's
\* stored plan, the target has left the frontier, and j, not invoked in that
\* update, still carries the plan
C26_Witness ==
    \E j \in Agents :
        /\ C26_StalePlan(j)
        /\ last[j].kind = "none"
        /\ \E i \in Agents \ {j} :
              /\ last[i].kind \in {"init", "grow"}
              /\ agents[j].travel_target \in {agents[i].prev, agents[i].curr}

-----------------------------------------------------------------------------
(* C27 *)

\* the vertex a move of agent i starts from: its curr before the step, or the
\* start vertex the initializing step has just assigned to prev
C27_FromKey(i) == IF agents[i].curr # None THEN agents[i].curr ELSE agents'[i].prev

\* an animator that requests a step in an update the frontier outlasts has its
\* Stepper invoked, and a step that changed (prev, curr) starts a move from
\* C27_FromKey to the new curr, from now to now + edge_traverse_ms, with the
\* position on the from-vertex
C27_StartStep(i) ==
    /\ (RequestsStep(animators[i], now_ms') /\ ~FrontierIsEmpty(Graph')) =>
          /\ Invoked(i)
          /\ last'[i].kind \in {"init", "grow", "travel"}
    /\ Invoked(i) => RequestsStep(animators[i], now_ms')
    /\ (Invoked(i) /\ Moved(i)) =>
          /\ animators'[i].phase = "MOVING"
          /\ animators'[i].move = [from_key |-> C27_FromKey(i),
                                   to_key |-> agents'[i].curr,
                                   start_ms |-> now_ms',
                                   end_ms |-> now_ms' + EdgeTraverseMs]
          /\ animators'[i].pos_px = layout.px[C27_FromKey(i)]
          /\ C27_FromKey(i) # agents'[i].curr

\* C27: when the animator requests a step while the frontier is non-empty it
\* invokes the Stepper exactly once; if (prev, curr) changed it enters MOVING
\* with Move.from the agent's previous curr (for the initializing step the
\* just-assigned prev), Move.to the new curr, start = now and end = now +
\* edge_traverse_ms, and the position on the from-vertex pixel.
C27_ChangedStepStartsMove ==
    [][/\ \A i \in Agents : C27_StartStep(i)
       /\ TotalTraffic(Graph') = TotalTraffic(Graph) + Cardinality(Movers)]_vars

\* an agent that was already on the graph has just been stepped from a
\* finished dwell and is at the start of its move
C27_Witness ==
    \E i \in Agents :
        /\ last[i].kind \in {"grow", "travel"}
        /\ animators[i].phase = "MOVING"
        /\ animators[i].move.start_ms = now_ms
        /\ animators[i].move.from_key = agents[i].prev
        /\ animators[i].pos_px = layout.px[agents[i].prev]
        /\ now_ms > 0

-----------------------------------------------------------------------------
(* C28 *)

\* the step that starts a move records the mode it left the agent in: GROW
\* after an initialization, a growth move or the hop that arrives, TRAVEL
\* after any other hop
C28_ModeObserved(i) ==
    (Invoked(i) /\ Moved(i)) =>
        /\ animators'[i].last_mode = agents'[i].mode
        /\ last'[i].kind \in {"init", "grow"} => animators'[i].last_mode = "GROW"
        /\ last'[i].kind = "travel" =>
              animators'[i].last_mode = (IF last'[i].arrived THEN "GROW" ELSE "TRAVEL")

\* the update that completes the move of agent i sets dwell_until from the
\* mode recorded when the move started, which is still the agent's mode
C28_MoveCompletes(i) ==
    (animators[i].phase = "MOVING" /\ animators'[i].phase # "MOVING") =>
        /\ animators'[i].phase = "DWELLING"
        /\ animators[i].last_mode = agents[i].mode
        /\ animators'[i].dwell_until_ms =
              now_ms' + (IF agents[i].mode = "TRAVEL" THEN TravelVertexDwellMs ELSE 0)
        /\ animators'[i].pos_px = layout.px[animators[i].move.to_key]

\* the recorded mode is kept for the whole move
C28_ModeKept(i) ==
    (animators[i].phase = "MOVING" /\ animators'[i].phase = "MOVING") =>
        /\ animators'[i].last_mode = animators[i].last_mode
        /\ agents'[i] = agents[i]

\* C28: when a MOVING phase completes at time now, dwell_until is now +
\* travel_vertex_dwell_ms if the mode observed right after the Stepper
\* invocation that started the move was TRAVEL and now + 0 otherwise; so the
\* hop that arrives at the travel target and every growth move are followed by
\* a zero dwell.
C28_DwellFollowsObservedMode ==
    [][\A i \in Agents :
          /\ C28_ModeObserved(i)
          /\ C28_ModeKept(i)
          /\ C28_MoveCompletes(i)]_vars

\* a travel hop that did not arrive has just completed and its agent dwells
\* for travel_vertex_dwell_ms
C28_Witness ==
    \E i \in Agents :
        /\ animators[i].phase = "DWELLING"
        /\ agents[i].mode = "TRAVEL"
        /\ agents[i].travel_path # <<>>
        /\ animators[i].dwell_until_ms = now_ms + TravelVertexDwellMs
        /\ animators[i].pos_px = layout.px[agents[i].curr]

-----------------------------------------------------------------------------
(* C29 *)

\* the Stepper is invoked for agent i only from IDLE, or from DWELLING at or
\* after dwell_until; an update that finds it MOVING or STOPPED leaves the
\* agent alone, and the update that completes a move is one of those
C29_InvokedOnlyWhenDue(i) ==
    /\ Invoked(i) =>
          \/ animators[i].phase = "IDLE"
          \/ animators[i].phase = "DWELLING" /\ now_ms' >= animators[i].dwell_until_ms
    /\ animators[i].phase \in {"MOVING", "STOPPED"} =>
          /\ ~Invoked(i)
          /\ agents'[i] = agents[i]
    /\ (animators[i].phase = "MOVING" /\ animators'[i].phase # "MOVING") =>
          /\ animators'[i].phase = "DWELLING"
          /\ now_ms' >= animators[i].move.start_ms + EdgeTraverseMs

\* a change of (prev, curr) comes at least edge_traverse_ms after the one
\* before it, and not in the update next after it: that one found the
\* animator MOVING
C29_ChangesApart(i) ==
    Moved(i) =>
        /\ animators[i].phase # "MOVING"
        /\ animators'[i].phase = "MOVING"
        /\ moved_at_ms'[i] = now_ms'
        /\ moved_at_ms[i] >= 0 => now_ms' - moved_at_ms[i] >= EdgeTraverseMs

\* C29: the Stepper is invoked for an agent only in an update where its phase
\* is IDLE, or DWELLING with now >= dwell_until, never while it is MOVING or
\* STOPPED, and not in the update that completes a move; so two consecutive
\* changes of one agent's (prev, curr) are at least edge_traverse_ms and at
\* least one update apart.
C29_StepsOnlyWhenDue ==
    [][\A i \in Agents : C29_InvokedOnlyWhenDue(i) /\ C29_ChangesApart(i)]_vars

\* an agent has changed (prev, curr) a second time, exactly edge_traverse_ms
\* after the first
C29_Witness ==
    \E i \in Agents :
        /\ last[i].kind \in {"grow", "travel"}
        /\ animators[i].phase = "MOVING"
        /\ moved_at_ms[i] = now_ms
        /\ now_ms = EdgeTraverseMs

-----------------------------------------------------------------------------
(* C30 *)

\* the layout lists no edge twice, in either direction, and no edge from a
\* vertex to itself
NoDuplicateEdgesNoSelfLoops ==
    /\ \A n \in 1..Len(layout.edges) : layout.edges[n][1] # layout.edges[n][2]
    /\ \A m, n \in 1..Len(layout.edges) :
          m # n => EdgeKey(layout.edges[m][1], layout.edges[m][2])
                     # EdgeKey(layout.edges[n][1], layout.edges[n][2])

\* the static edges at v whose exists flag is false
OpenStaticEdges(v) ==
    {n \in 1..Len(layout.edges) :
        /\ v \in {layout.edges[n][1], layout.edges[n][2]}
        /\ ~EdgeState(Graph, layout.edges[n][1], layout.edges[n][2]).exists}

\* C30: for a layout without duplicate edges and self-loops, in every
\* reachable state open_incident_edges(v) is the number of static edges at v
\* whose exists flag is false, for every vertex v; so the frontier is empty
\* exactly when every static edge exists.
C30_OpenCountIsOpenEdges ==
    NoDuplicateEdgesNoSelfLoops =>
        /\ \A v \in Vertices :
              vertex_state[v].open_incident_edges = Cardinality(OpenStaticEdges(v))
        /\ FrontierIsEmpty(Graph) <=> \A e \in Edges : edge_state[e].exists

\* on such a layout a vertex has some of its edges materialised and others
\* still open, while another vertex has none left open
C30_Witness ==
    /\ NoDuplicateEdgesNoSelfLoops
    /\ \E v \in Vertices :
          /\ vertex_state[v].open_incident_edges > 0
          /\ vertex_state[v].open_incident_edges < Len(Neighbors(v))
    /\ \E v \in Vertices :
          /\ Len(Neighbors(v)) > 0
          /\ vertex_state[v].open_incident_edges = 0

-----------------------------------------------------------------------------
(* C31 *)

\* C31: for every initialized agent, in every reachable state prev and curr
\* are distinct, (prev, curr) is a static edge of the graph and that edge has
\* exists = true.
C31_AgentStandsOnExistingEdge ==
    \A i \in Agents :
        /\ agents[i].prev = None <=> agents[i].curr = None
        /\ agents[i].curr # None =>
              /\ agents[i].prev # agents[i].curr
              /\ agents[i].prev \in Range(Neighbors(agents[i].curr))
              /\ EdgeKey(agents[i].prev, agents[i].curr) \in EdgeKeys(layout)
              /\ EdgeState(Graph, agents[i].prev, agents[i].curr).exists

\* an agent has just taken a hop of a plan it had stored, along an edge of the
\* graph, while the other agent, also initialized, is in GROW mode
C31_Witness ==
    \E i, j \in Agents :
        /\ i # j
        /\ last[i].kind = "travel"
        /\ last[i].planning = "none"
        /\ agents[i].curr # None
        /\ agents[j].curr # None
        /\ agents[j].mode = "GROW"
        /\ vertex_state[agents[i].prev].visit_count >= 1

-----------------------------------------------------------------------------
(* C32 *)

\* curr followed by the stored path of agent i
C32_Walk(i) == <<agents[i].curr>> \o agents[i].travel_path

\* C32: between Stepper invocations, for every agent in TRAVEL mode,
\* travel_target is unset exactly when travel_path is empty; and when a target
\* is set, curr followed by travel_path is a walk over static edges that all
\* have exists = true, repeats no vertex, and ends at travel_target.
C32_StoredPlanIsWalkToTarget ==
    \A i \in Agents :
        agents[i].mode = "TRAVEL" =>
            /\ agents[i].travel_target = None <=> agents[i].travel_path = <<>>
            /\ agents[i].travel_target # None =>
                  LET walk == C32_Walk(i)
                  IN  /\ \A n \in 1..(Len(walk) - 1) :
                            /\ walk[n + 1] \in Range(Neighbors(walk[n]))
                            /\ EdgeKey(walk[n], walk[n + 1]) \in EdgeKeys(layout)
                            /\ EdgeState(Graph, walk[n], walk[n + 1]).exists
                      /\ \A m, n \in 1..Len(walk) : m # n => walk[m] # walk[n]
                      /\ walk[Len(walk)] = agents[i].travel_target

\* an agent in TRAVEL mode is one hop into a plan of three hops or more
C32_Witness ==
    \E i \in Agents :
        /\ agents[i].mode = "TRAVEL"
        /\ agents[i].travel_target # None
        /\ Len(agents[i].travel_path) >= 2
        /\ last[i].kind = "travel"

-----------------------------------------------------------------------------
(* C33 *)

\* C33: between Stepper invocations every agent in GROW mode, starting from a
\* default-constructed Agent, carries no travel payload: travel_target is
\* unset, travel_target_version is -1 and travel_path is empty.
C33_GrowModeCarriesNoPlan ==
    \A i \in Agents :
        agents[i].mode = "GROW" =>
            /\ agents[i].travel_target = None
            /\ agents[i].travel_target_version = -1
            /\ agents[i].travel_path = <<>>

\* an agent is back in GROW mode after the last hop of a journey that took
\* more than one invocation
C33_Witness ==
    \E i \in Agents :
        /\ agents[i].mode = "GROW"
        /\ last[i].kind = "travel"
        /\ ~last[i].blocked
        /\ last[i].arrived
        /\ agents[i].curr # None

-----------------------------------------------------------------------------
(* C34 *)

\* the sum of visit_count over all vertices
TotalVisits(g) ==
    LET RECURSIVE Sum(_)
        Sum(S) == IF S = {} THEN 0
                  ELSE LET v == CHOOSE x \in S : TRUE
                       IN  g.vertex_state[v].visit_count + Sum(S \ {v})
    IN  Sum(DOMAIN g.vertex_state)

\* C34: between Stepper invocations an edge has exists = true if and only if
\* its traffic is at least 1, and the sum of traffic over all edges equals the
\* sum of visit_count over all vertices, which equals the number of Stepper
\* invocations that changed some agent's (prev, curr).
C34_TrafficCountsMoves ==
    /\ \A e \in Edges : edge_state[e].exists <=> edge_state[e].traffic >= 1
    /\ TotalTraffic(Graph) = TotalVisits(Graph)
    /\ TotalVisits(Graph) = moves_made

\* both agents have moved, an edge has been traversed more than once and
\* another not at all, and the last invocation failed to plan and changed
\* nothing
C34_Witness ==
    /\ moves_made >= 2
    /\ \E e \in Edges : edge_state[e].traffic >= 2
    /\ \E e \in Edges : ~edge_state[e].exists
    /\ \E i \in Agents : last[i].kind = "travel" /\ last[i].planning = "failed"

-----------------------------------------------------------------------------
(* C35 *)

\* every vertex of the layout has at most 3 neighbours
AtMostThreeNeighbours == \A v \in DOMAIN adjacency : Len(adjacency[v]) <= 3

\* the travel step of agent i, entered by blocked growth or from TRAVEL mode,
\* began at a curr that is not a frontier vertex, did not get curr back from
\* BFS with an empty path, and did not end in GROW without a move
C35_TravelStep(i) ==
    /\ ~IsFrontierVertex(Graph, agents[i].curr)
    /\ ~(last'[i].planning = "ok" /\ last'[i].plan_target = agents[i].curr)
    /\ ~(last'[i].planning = "ok" /\ last'[i].plan_path = <<>>)
    /\ agents'[i].mode = "GROW" => Moved(i)

\* C35: on any layout in which every vertex has at most 3 neighbours, whenever
\* a growth move is blocked curr is not a frontier vertex and at the start of
\* every travel step curr is not a frontier vertex; so BFS never returns curr
\* itself with an empty path and no invocation flips the mode TRAVEL to GROW
\* without moving the agent.
C35_NoEmptyPlanOnDegreeThree ==
    [][AtMostThreeNeighbours =>
          \A i \in Agents : last'[i].kind = "travel" => C35_TravelStep(i)]_vars

\* on such a layout growth has just been blocked at a vertex with three
\* neighbours, both forward edges existing, and the agent has hopped away
C35_Witness ==
    /\ AtMostThreeNeighbours
    /\ \E i \in Agents :
          /\ last[i].kind = "travel"
          /\ last[i].blocked
          /\ last[i].planning = "ok"
          /\ Len(Neighbors(last[i].plan_start)) = 3
          /\ agents[i].prev = last[i].plan_start

-----------------------------------------------------------------------------
(* C36 *)

\* the vertices within k hops of the set S over static edges
RECURSIVE StaticWithinHops(_, _)
StaticWithinHops(S, k) ==
    IF k = 0 THEN S
    ELSE LET near == StaticWithinHops(S, k - 1)
         IN  near \cup UNION {Range(adjacency[u]) : u \in near}

\* every vertex of the static graph can be reached from every other
StaticGraphConnected ==
    \A v \in DOMAIN adjacency :
        StaticWithinHops({v}, Cardinality(DOMAIN adjacency)) = DOMAIN adjacency

\* every initialized agent can reach a frontier vertex over existing edges
\* while there is one
C36_FrontierReachable ==
    \A i \in Agents :
        (agents[i].curr # None /\ ~FrontierIsEmpty(Graph)) =>
            ReachableFrontier(Graph, agents[i].curr) # {}

\* no invocation fails to plan, and no retry dwell follows a failed plan
C36_NoFailedPlan(i) ==
    /\ last'[i].planning # "failed"
    /\ (Invoked(i) /\ ~Moved(i) /\ animators'[i].dwell_until_ms = now_ms' + 1) =>
          /\ last'[i].planning = "ok"
          /\ last'[i].plan_target = agents[i].curr

\* C36: on a connected static graph, for any number of agents, whenever the
\* frontier is non-empty and an agent is initialized, some frontier vertex is
\* reachable from its curr over exists = true edges; so travel planning never
\* fails and the retry dwell is never entered because of an unreachable
\* frontier.
C36_ConnectedGraphAlwaysPlans ==
    /\ [](StaticGraphConnected => C36_FrontierReachable)
    /\ [][StaticGraphConnected => \A i \in Agents : C36_NoFailedPlan(i)]_vars

\* on a connected graph a blocked agent has just planned and hopped while the
\* other agent is on a part of the graph no existing edge joins to its own
C36_Witness ==
    /\ StaticGraphConnected
    /\ \E i, j \in Agents :
          /\ last[i].kind = "travel"
          /\ last[i].planning = "ok"
          /\ Len(last[i].plan_path) >= 1
          /\ agents[j].curr # None
          /\ agents[j].curr \notin WithinHops(Graph, {agents[i].curr}, Cardinality(Vertices))

-----------------------------------------------------------------------------
(* C37 *)

\* the travel step of agent i arrived and switched it back to GROW
C37_ArrivedStep(i) ==
    /\ last'[i].kind = "travel"
    /\ last'[i].arrived
    /\ agents'[i].mode = "GROW"

\* C37: whenever a travel step switches an agent back to GROW on arrival, the
\* vertex it arrived at (curr, the former travel target) is a frontier vertex
\* at the end of that invocation, also when other agents have materialised
\* edges since the plan was made.
C37_ArrivesAtFrontierVertex ==
    [][\A i \in Agents :
          C37_ArrivedStep(i) =>
              /\ agents'[i].curr = C24_PlanTarget(i)
              /\ IsFrontierVertex(Graph', agents'[i].curr)]_vars

\* an agent whose stored plan another agent's new edge had made stale has
\* replanned and arrived in one invocation, after a real hop
C37_Witness ==
    \E i \in Agents :
        /\ last[i].kind = "travel"
        /\ last[i].cancelled
        /\ last[i].arrived
        /\ Len(last[i].plan_path) = 1
        /\ agents[i].mode = "GROW"
        /\ IsFrontierVertex(Graph, agents[i].curr)

-----------------------------------------------------------------------------
(* C38 *)

\* pos is the point the fraction t / d of the way from a to b, rounded down
\* to whole pixels in each coordinate
C38_AtFraction(pos, a, b, t, d) ==
    \A k \in 1..2 :
        LET rest == (b[k] - a[k]) * t - d * (pos[k] - a[k])
        IN  0 <= rest /\ rest < d

\* pos is inside the bounding box of a and b
C38_Between(pos, a, b) ==
    \A k \in 1..2 : Min(a[k], b[k]) <= pos[k] /\ pos[k] <= Max(a[k], b[k])

\* the elapsed part of the move of animator i at the current time
C38_Elapsed(i) ==
    Min(EdgeTraverseMs, Max(0, now_ms - animators[i].move.start_ms))

C38_DwellingAtCurr(i) ==
    animators[i].phase = "DWELLING" =>
        /\ agents[i].curr # None
        /\ animators[i].pos_px = layout.px[agents[i].curr]

C38_MovingAlongEdge(i) ==
    animators[i].phase = "MOVING" =>
        /\ animators[i].move # None
        /\ animators[i].move.from_key = agents[i].prev
        /\ animators[i].move.to_key = agents[i].curr
        /\ C38_Between(animators[i].pos_px,
                       layout.px[agents[i].prev], layout.px[agents[i].curr])
        /\ C38_AtFraction(animators[i].pos_px,
                          layout.px[agents[i].prev], layout.px[agents[i].curr],
                          C38_Elapsed(i), EdgeTraverseMs)

\* C38: in every reachable animator state with a non-decreasing clock,
\* whenever the phase is DWELLING the rendered position equals the pixel
\* position of the agent's curr, and whenever the phase is MOVING the
\* in-flight Move has from = agent.prev and to = agent.curr and the position
\* lies on the segment between those two vertices' pixel positions.
C38_PositionFollowsAgent ==
    \A i \in Agents : C38_DwellingAtCurr(i) /\ C38_MovingAlongEdge(i)

\* one animator is strictly between the two ends of its move while another
\* dwells at its agent's current vertex
C38_Witness ==
    \E i, j \in Agents :
        /\ animators[i].phase = "MOVING"
        /\ animators[i].pos_px # layout.px[agents[i].prev]
        /\ animators[i].pos_px # layout.px[agents[i].curr]
        /\ animators[j].phase = "DWELLING"
        /\ animators[j].pos_px = layout.px[agents[j].curr]

-----------------------------------------------------------------------------
(* C39 *)

\* an in-flight Move is set exactly when the phase is MOVING
C39_MoveSetIffMoving ==
    \A i \in Agents : animators[i].move # None <=> animators[i].phase = "MOVING"

\* a non-empty frontier leaves a directed start edge to draw
C39_StartEdgeAvailable == ~FrontierIsEmpty(Graph) => StartEdges # {}

\* what the assertions around the Stepper invocation of agent i demand
C39_InvocationAsserts(i) ==
    /\ Invoked(i) =>
          /\ last'[i].kind # "frontier_empty"
          /\ agents'[i].prev # None
          /\ agents'[i].curr # None
    /\ last'[i].kind \in {"grow", "travel"} =>
          /\ agents[i].prev # None
          /\ agents[i].curr # None
    /\ last'[i].kind = "init" => <<agents'[i].prev, agents'[i].curr>> \in StartEdges

\* C39: no assertion of the animator or Stepper can fail in a run driven
\* through the scheduler: an in-flight Move is set exactly when the phase is
\* MOVING, the agent's prev and curr are both set after every Stepper
\* invocation made by the animator (it is only invoked with a non-empty
\* frontier, which guarantees a vertex of nonzero degree for the start edge),
\* and _step_grow/_step_travel are only reached with prev and curr set.
C39_NoAssertionFails ==
    /\ [](C39_MoveSetIffMoving /\ C39_StartEdgeAvailable)
    /\ [][\A i \in Agents : C39_InvocationAsserts(i)]_vars

\* one animator has finished its Move and dwells without one, not invoking
\* the Stepper in this tick, while another invoked the Stepper, which went
\* through the travel step and left a Move in flight
C39_Witness ==
    \E i, j \in Agents :
        /\ animators[i].phase = "DWELLING"
        /\ animators[i].move = None
        /\ last[i].kind = "none"
        /\ animators[i].dwell_until_ms >= now_ms
        /\ agents[i].prev # None
        /\ last[j].kind = "travel"
        /\ animators[j].phase = "MOVING"
        /\ animators[j].move # None

====
